---- MODULE Spec2Model ----
(***************************************************************************)
(* Model of the multi-provider query pipeline of the H-LLM REST API:       *)
(*   - src/app/ai_models.py : the eight provider adapters and the fan-out  *)
(*     dispatcher query_all_models;                                        *)
(*   - src/app/analysis.py  : the Red/Blue/Purple review engine            *)
(*     run_team_analysis, extract_score_from_analysis, calculate_h_score;  *)
(*   - src/main.py          : the tail of query_endpoint that runs the     *)
(*     reviews and the scorer.                                             *)
(*                                                                         *)
(* Python strings are sequences of one-character strings, so that          *)
(* startswith, `in`, lower(), strip() and the regular expressions of the   *)
(* scorer are computed character by character.  Python's None is the       *)
(* record None; a str value s is Str(s).                                   *)
(***************************************************************************)
EXTENDS Integers, Sequences, FiniteSets, TLC

VARIABLES
    api_keys,       \* providers whose *_API_KEY environment variable is set
    next_submit,    \* query_all_models: index in Funcs of the next executor.submit
    task,           \* per adapter task: "unsubmitted", "submitted", "waiting", "done"
    net_requests,   \* per provider: outbound requests made in this dispatch
    net_outcome,    \* per provider: what its request produced (NoOutcome before)
    future,         \* per provider: the Future's state (pending, return, raise)
    yielded,        \* futures that as_completed has already yielded
    results,        \* query_all_models: the list results
    logged,         \* providers whose exception the dispatcher printed
    qpc,            \* query_all_models: "idle", "submitting", "collecting", "returned", "raised"
    request,        \* query_endpoint: the QueryRequest's review toggles
    responses,      \* query_endpoint: model_responses, the dispatcher's list
    review_task,    \* per review ("red", "blue"): "unsubmitted", "running", "done"
    review_outcome, \* per review ("red", "blue", "purple"): what its API call produced
    review_future,  \* per review ("red", "blue"): the string its task returned
    red_analysis,   \* run_team_analysis: local red_analysis
    blue_analysis,  \* run_team_analysis: local blue_analysis
    purple_analysis, \* run_team_analysis: local purple_analysis
    purple_args,    \* arguments of the call of perform_purple_team_analysis, if made
    team_analysis,  \* query_endpoint: the dict run_team_analysis returned, or NoTeam
    h_score,        \* query_endpoint: the dict calculate_h_score returned, or NoScore
    epc,            \* query_endpoint / run_team_analysis: position in the code
    ex_text,        \* extract_score_from_analysis: argument analysis_text
    ex_type,        \* extract_score_from_analysis: argument score_type
    ex_score,       \* the value a call returned
    ex_again,       \* the value a second call on the same arguments returned
    ex_pc,          \* "idle", "call", "called", "done"
    authorization,  \* query_endpoint: the Authorization header, or None
    web_search_calls, \* calls of get_web_search_context made by query_endpoint
    web_context,    \* query_endpoint: the search context, or None
    web_search_used, \* query_endpoint: web_context is not None
    dispatch_calls, \* calls of query_all_models made by query_endpoint
    verify_calls,   \* calls of verify_responses made by query_endpoint
    ai_responses,   \* verify_response_accuracy: the responses to verify
    current_year,   \* datetime.now().year
    search_outcome, \* what the Custom Search request did, NoSearch without one
    verification_results, \* the dict verify_response_accuracy builds and returns
    vpc,            \* verify_response_accuracy: position in the code
    phone_number,   \* verify_otp_code: argument phone_number
    code,           \* verify_otp_code: argument code
    twilio_client,  \* auth.py: twilio_client is not None
    check_calls,    \* calls of verification_checks.create
    check_status,   \* what the last of them did, "none" before
    otp_result,     \* the dict verify_otp_code returned
    utcnow,         \* datetime.utcnow(), in hours
    jwt_token,      \* verify_jwt_token: argument token
    jwt_payload,    \* the payload verify_jwt_token returned, or NoPayload
    apc             \* verify_otp_code: "idle", "verify", "returned", "checked"

dvars == <<api_keys, next_submit, task, net_requests, net_outcome, future,
           yielded, results, logged, qpc>>

tvars == <<request, responses, review_task, review_outcome, review_future,
           red_analysis, blue_analysis, purple_analysis, purple_args,
           team_analysis, h_score, epc>>

\* extract_score_from_analysis called on its own
xvars == <<ex_text, ex_type, ex_score, ex_again, ex_pc>>

\* query_endpoint before the reviews
qvars == <<authorization, web_search_calls, web_context, web_search_used,
           dispatch_calls, verify_calls>>

\* TruthVerificationEngine.verify_response_accuracy
vvars == <<ai_responses, current_year, search_outcome, verification_results,
           vpc>>

\* verify_otp_code and the tokens
avars == <<phone_number, code, twilio_client, check_calls, check_status,
           otp_result, utcnow, jwt_token, jwt_payload, apc>>

vars == <<dvars, tvars, xvars, qvars, vvars, avars>>

----------------------------------------------------------------------------
(* Python str operations, on sequences of characters.                      *)

Digits == <<"0", "1", "2", "3", "4", "5", "6", "7", "8", "9">>

IsDigit(c) == \E i \in 1..10 : Digits[i] = c

\* \s of the re module and the characters str.strip() removes
IsSpace(c) == c \in {" ", "\n", "\t", "\r"}

Upper == <<"A", "B", "C", "D", "E", "F", "G", "H", "I", "J", "K", "L", "M", "N", "O", "P", "Q", "R", "S", "T", "U", "V", "W", "X", "Y", "Z">>
Lower == <<"a", "b", "c", "d", "e", "f", "g", "h", "i", "j", "k", "l", "m", "n", "o", "p", "q", "r", "s", "t", "u", "v", "w", "x", "y", "z">>

LowerChar(c) ==
    IF \E i \in 1..26 : Upper[i] = c
    THEN Lower[CHOOSE i \in 1..26 : Upper[i] = c]
    ELSE c

\* str.lower()
lower(s) == [i \in 1..Len(s) |-> LowerChar(s[i])]

\* s[i:].startswith(p), i counted from 1
StartsAt(s, i, p) ==
    /\ i >= 1
    /\ i + Len(p) - 1 <= Len(s)
    /\ \A k \in 1..Len(p) : s[i + k - 1] = p[k]

\* str.startswith
startswith(s, p) == StartsAt(s, 1, p)

\* p in s
contains(s, p) == \E i \in 1..(Len(s) + 1) : StartsAt(s, i, p)

\* str.strip()
strip(s) ==
    IF \A i \in 1..Len(s) : IsSpace(s[i])
    THEN <<>>
    ELSE LET a == CHOOSE i \in 1..Len(s) :
                     ~IsSpace(s[i]) /\ \A k \in 1..(i - 1) : IsSpace(s[k])
             b == CHOOSE i \in 1..Len(s) :
                     ~IsSpace(s[i]) /\ \A k \in (i + 1)..Len(s) : IsSpace(s[k])
         IN  SubSeq(s, a, b)

\* str(n) for an int n >= 0
RECURSIVE IntToStr(_)
IntToStr(n) ==
    IF n < 10 THEN <<Digits[n + 1]>>
    ELSE IntToStr(n \div 10) \o <<Digits[(n % 10) + 1]>>

\* Python's None and str values
None == [isNone |-> TRUE, s |-> <<>>]

Str(s) == [isNone |-> FALSE, s |-> s]

\* truthiness of an Optional[str]: None and "" are falsy
Truthy(v) == ~v.isNone /\ Len(v.s) > 0

----------------------------------------------------------------------------
(* src/app/ai_models.py: the provider adapters.                            *)

\* the list model_functions of query_all_models, by the "model" name each
\* adapter puts in its result
model_functions ==
    <<"OpenAI", "Claude", "Gemini", "Cohere", "DeepSeek", "OpenRouter",
      "Perplexity", "Grok">>

\* how many adapters of model_functions the model dispatches: the last
\* NumProviders of the list, which include the requests-based adapter
\* call_perplexity and SDK-based adapters of the shape of call_openai
NumProviders == 3

Funcs ==
    SubSeq(model_functions, Len(model_functions) - NumProviders + 1,
           Len(model_functions))

Providers == {Funcs[i] : i \in 1..Len(Funcs)}

\* the adapter's name as it appears in its diagnostics
ModelName(p) ==
    CASE p = "OpenAI" -> <<"O", "p", "e", "n", "A", "I">>
      [] p = "Claude" -> <<"C", "l", "a", "u", "d", "e">>
      [] p = "Gemini" -> <<"G", "e", "m", "i", "n", "i">>
      [] p = "Cohere" -> <<"C", "o", "h", "e", "r", "e">>
      [] p = "DeepSeek" -> <<"D", "e", "e", "p", "S", "e", "e", "k">>
      [] p = "OpenRouter" -> <<"O", "p", "e", "n", "R", "o", "u", "t", "e", "r">>
      [] p = "Perplexity" -> <<"P", "e", "r", "p", "l", "e", "x", "i", "t", "y">>
      [] p = "Grok" -> <<"G", "r", "o", "k">>

\* what one outbound request can produce.  kind "raise": the client call
\* raised an exception whose str() is text (connection error, timeout, and
\* for the SDK clients a non-success status).  kind "http": a response
\* arrived, with its status code and the shape of its payload:
\*   "content"       choices[0].message.content is the string text
\*   "none_content"  choices[0].message.content is None
\*   "empty_choices" choices is the empty list
\*   "no_choices"    the JSON object has no key 'choices'
\*   "no_message"    choices[0] has no key 'message'
\*   "bad_json"      the body is not JSON
Outcome(k, st, pl, t) == [kind |-> k, status |-> st, payload |-> pl, text |-> t]

NoOutcome == Outcome("none", 0, "none", <<>>)

\* texts of the exceptions the HTTP clients raise
ExceptionTexts == {<<"R", "e", "q", "u", "e", "s", "t", " ", "t", "i", "m", "e", "d", " ", "o", "u", "t", ".">>, <<"E", "r", "r", "o", "r", " ", "c", "o", "d", "e", ":", " ", "5", "0", "0">>}

\* answers the providers give
AnswerTexts == {<<" ", "P", "a", "r", "i", "s", ".", " ", "\n">>}

HTTP_OK == 200

StatusCodes == {HTTP_OK, 500}

\* outcomes of chat.completions.create / messages.create / generate_content /
\* co.chat: the SDK raises on a non-success status, so a response is a 200
SdkOutcomes ==
    {Outcome("raise", 0, "none", t) : t \in ExceptionTexts}
    \cup {Outcome("http", HTTP_OK, "content", t) : t \in AnswerTexts}
    \cup {Outcome("http", HTTP_OK, pl, <<>>) : pl \in {"none_content", "empty_choices"}}

\* outcomes of requests.post in call_perplexity
RequestsOutcomes ==
    {Outcome("raise", 0, "none", t) : t \in ExceptionTexts}
    \cup {Outcome("http", st, "content", t) : st \in StatusCodes, t \in AnswerTexts}
    \cup {Outcome("http", HTTP_OK, pl, <<>>) :
             pl \in {"no_choices", "empty_choices", "no_message", "none_content",
                     "bad_json"}}

OutcomesOf(p) == IF p = "Perplexity" THEN RequestsOutcomes ELSE SdkOutcomes

\* str(e) of the exceptions raised by the adapter's own statements
IndexErrorText == <<"l", "i", "s", "t", " ", "i", "n", "d", "e", "x", " ", "o", "u", "t", " ", "o", "f", " ", "r", "a", "n", "g", "e">>
AttributeErrorText == <<"'", "N", "o", "n", "e", "T", "y", "p", "e", "'", " ", "o", "b", "j", "e", "c", "t", " ", "h", "a", "s", " ", "n", "o", " ", "a", "t", "t", "r", "i", "b", "u", "t", "e", " ", "'", "s", "t", "r", "i", "p", "'">>
KeyErrorText == <<"'", "m", "e", "s", "s", "a", "g", "e", "'">>
JSONDecodeErrorText == <<"E", "x", "p", "e", "c", "t", "i", "n", "g", " ", "v", "a", "l", "u", "e", ":", " ", "l", "i", "n", "e", " ", "1", " ", "c", "o", "l", "u", "m", "n", " ", "1", " ", "(", "c", "h", "a", "r", " ", "0", ")">>

\* a result dict {"model": ..., "response": ...}
Result(p, text) == [model |-> p, response |-> text]

\* what a finished adapter task holds: a returned dict or a raised exception
Returned(r) == [state |-> "return", value |-> r]
Raised(p) == [state |-> "raise", value |-> Result(p, <<>>)]
Pending(p) == [state |-> "pending", value |-> Result(p, <<>>)]

\* "[<name> unavailable: missing API key]"
unavailable(p) ==
    Result(p, <<"[">> \o ModelName(p) \o <<" ", "u", "n", "a", "v", "a", "i", "l", "a", "b", "l", "e", ":", " ", "m", "i", "s", "s", "i", "n", "g", " ", "A", "P", "I", " ", "k", "e", "y", "]">>)

\* f"[<name> error: {str(e)}]"
error_result(p, e) ==
    Result(p, <<"[">> \o ModelName(p) \o <<" ", "e", "r", "r", "o", "r", ":", " ">> \o e \o <<"]">>)

\* a variant of except_Exception that lets the exception go on to the caller
except_Exception_reraise(p, e) == Raised(p)

\* the except clause of an adapter: except Exception as e: return {...}
except_Exception(p, e) == Returned(error_result(p, e))

\* the try block of call_openai (and of the adapters of the same shape:
\* call_claude, call_gemini, call_cohere, call_deepseek, call_openrouter,
\* call_grok) once the client call has produced outcome o
call_openai(p, o) ==
    IF o.kind = "raise" THEN except_Exception(p, o.text)
    ELSE IF o.payload = "empty_choices" THEN except_Exception(p, IndexErrorText)
    ELSE IF o.payload = "none_content" THEN except_Exception(p, AttributeErrorText)
    ELSE Returned(Result(p, strip(o.text)))

\* a variant of call_perplexity that raises on a non-success status, outside
\* the try block, instead of returning the HTTP diagnostic
call_perplexity_raise_for_status(p, o) ==
    IF o.kind = "raise" THEN except_Exception(p, o.text)
    ELSE IF o.status # HTTP_OK THEN Raised(p)
    ELSE IF o.payload = "bad_json" THEN except_Exception(p, JSONDecodeErrorText)
    ELSE IF o.payload \in {"no_choices", "empty_choices"}
         THEN Returned(error_result(p, <<"U", "n", "e", "x", "p", "e", "c", "t", "e", "d", " ", "r", "e", "s", "p", "o", "n", "s", "e">>))
    ELSE IF o.payload = "no_message" THEN except_Exception(p, KeyErrorText)
    ELSE IF o.payload = "none_content" THEN except_Exception(p, AttributeErrorText)
    ELSE Returned(Result(p, strip(o.text)))

\* the try block of call_perplexity once requests.post has produced outcome o
call_perplexity(p, o) ==
    IF o.kind = "raise" THEN except_Exception(p, o.text)
    ELSE IF o.status # HTTP_OK
         THEN Returned(error_result(p, <<"H", "T", "T", "P", " ">> \o IntToStr(o.status)))
    ELSE IF o.payload = "bad_json" THEN except_Exception(p, JSONDecodeErrorText)
    ELSE IF o.payload \in {"no_choices", "empty_choices"}
         THEN Returned(error_result(p, <<"U", "n", "e", "x", "p", "e", "c", "t", "e", "d", " ", "r", "e", "s", "p", "o", "n", "s", "e">>))
    ELSE IF o.payload = "no_message" THEN except_Exception(p, KeyErrorText)
    ELSE IF o.payload = "none_content" THEN except_Exception(p, AttributeErrorText)
    ELSE Returned(Result(p, strip(o.text)))

adapter_result(p, o) ==
    IF p = "Perplexity" THEN call_perplexity(p, o) ELSE call_openai(p, o)

----------------------------------------------------------------------------
(* src/app/ai_models.py: query_all_models.                                 *)

InitDispatch ==
    /\ next_submit = 1
    /\ task = [p \in Providers |-> "unsubmitted"]
    /\ net_requests = [p \in Providers |-> 0]
    /\ net_outcome = [p \in Providers |-> NoOutcome]
    /\ future = [p \in Providers |-> Pending(p)]
    /\ yielded = {}
    /\ results = <<>>
    /\ logged = {}
    /\ qpc = "submitting"

\* executor.submit(func, ...) for the next func of model_functions; with
\* max_workers=8 every submitted task gets its own worker thread
Submit ==
    /\ qpc = "submitting"
    /\ next_submit <= Len(Funcs)
    /\ task' = [task EXCEPT ![Funcs[next_submit]] = "submitted"]
    /\ next_submit' = next_submit + 1
    /\ qpc' = IF next_submit = Len(Funcs) THEN "collecting" ELSE qpc
    /\ UNCHANGED <<api_keys, net_requests, net_outcome, future, yielded,
                   results, logged, tvars, xvars, qvars, vvars, avars>>

\* a variant of has_credential that never finds the credential missing
has_credential_unchecked(p) == TRUE

\* if not openai_client / if not <NAME>_API_KEY: the client of call_openai and
\* of call_claude exists exactly when the key is set
has_credential(p) == p \in api_keys

\* the worker thread runs the adapter up to its client call: without the
\* credential it returns the diagnostic at once, else it sends one request
AdapterStart(p) ==
    /\ task[p] = "submitted"
    /\ IF ~has_credential(p)
       THEN /\ future' = [future EXCEPT ![p] = Returned(unavailable(p))]
            /\ task' = [task EXCEPT ![p] = "done"]
            /\ UNCHANGED net_requests
       ELSE /\ net_requests' = [net_requests EXCEPT ![p] = @ + 1]
            /\ task' = [task EXCEPT ![p] = "waiting"]
            /\ UNCHANGED future
    /\ UNCHANGED <<api_keys, next_submit, net_outcome, yielded, results,
                   logged, qpc, tvars, xvars, qvars, vvars, avars>>

\* the client call ends with outcome o and the adapter returns its result
AdapterRespond(p) ==
    /\ task[p] = "waiting"
    /\ \E o \in OutcomesOf(p) :
        /\ net_outcome' = [net_outcome EXCEPT ![p] = o]
        /\ future' = [future EXCEPT ![p] = adapter_result(p, o)]
    /\ task' = [task EXCEPT ![p] = "done"]
    /\ UNCHANGED <<api_keys, next_submit, net_requests, yielded, results,
                   logged, qpc, tvars, xvars, qvars, vvars, avars>>

\* a variant of collect without the try/except around future.result(): the
\* exception of a failed task leaves query_all_models
collect_no_try(f, res, log) ==
    IF f.state = "return"
    THEN [results |-> Append(res, f.value), logged |-> log, qpc |-> "collecting"]
    ELSE [results |-> res, logged |-> log, qpc |-> "raised"]

\* the body of the as_completed loop for a finished future f:
\*   try: results.append(future.result())
\*   except Exception as e: print(...)
collect(f, res, log) ==
    IF f.state = "return"
    THEN [results |-> Append(res, f.value), logged |-> log, qpc |-> "collecting"]
    ELSE [results |-> res, logged |-> log \cup {f.value.model}, qpc |-> "collecting"]

\* as_completed yields a finished future it has not yielded yet
Collect(p) ==
    /\ qpc = "collecting"
    /\ p \notin yielded
    /\ task[p] = "done"
    /\ yielded' = yielded \cup {p}
    /\ LET c == collect(future[p], results, logged)
       IN  /\ results' = c.results
           /\ logged' = c.logged
           /\ qpc' = c.qpc
    /\ UNCHANGED <<api_keys, next_submit, task, net_requests, net_outcome,
                   future, tvars, xvars, qvars, vvars, avars>>

\* a variant of all_yielded that stops the loop after the first future
all_yielded_first(y) == y # {}

\* as_completed is exhausted once every future has been yielded; leaving the
\* with block joins the workers, and the function returns results
all_yielded(y) == y = Providers

Return ==
    /\ qpc = "collecting"
    /\ all_yielded(yielded)
    /\ qpc' = "returned"
    /\ UNCHANGED <<api_keys, next_submit, task, net_requests, net_outcome,
                   future, yielded, results, logged, tvars, xvars, qvars, vvars, avars>>

----------------------------------------------------------------------------
(* Python floats, as exact fractions n/d with d > 0.                       *)

Frac(n, d) == [n |-> n, d |-> d]

RECURSIVE GCD(_, _)
GCD(a, b) == IF b = 0 THEN a ELSE GCD(b, a % b)

Abs(n) == IF n < 0 THEN -n ELSE n

\* the same fraction in lowest terms
Norm(f) == LET g == GCD(Abs(f.n), f.d) IN Frac(f.n \div g, f.d \div g)

FEq(a, b) == a.n * b.d = b.n * a.d

FLe(a, b) == a.n * b.d <= b.n * a.d

FAdd(a, b) == Norm(Frac(a.n * b.d + b.n * a.d, a.d * b.d))

FSub(a, b) == Norm(Frac(a.n * b.d - b.n * a.d, a.d * b.d))

FMul(a, b) == Norm(Frac(a.n * b.n, a.d * b.d))

FMin(a, b) == IF FLe(a, b) THEN a ELSE b

FMax(a, b) == IF FLe(a, b) THEN b ELSE a

RECURSIVE Pow10(_)
Pow10(k) == IF k = 0 THEN 1 ELSE 10 * Pow10(k - 1)

\* round(x, k) for x >= 0: to the nearest multiple of 10^-k, ties to even
round(x, k) ==
    LET m == Pow10(k)
        q == (x.n * m) \div x.d
        r == (x.n * m) % x.d
        up == \/ 2 * r > x.d
              \/ 2 * r = x.d /\ q % 2 = 1
    IN  Frac(IF up THEN q + 1 ELSE q, m)

\* int(ds) for a sequence ds of decimal digits
RECURSIVE DigitsToInt(_)
DigitsToInt(ds) ==
    IF ds = <<>> THEN 0
    ELSE 10 * DigitsToInt(SubSeq(ds, 1, Len(ds) - 1))
         + (CHOOSE v \in 0..9 : Digits[v + 1] = ds[Len(ds)])

\* float(t) for t matching \d+(?:\.\d+)?
float(t) ==
    IF \E i \in 1..Len(t) : t[i] = "."
    THEN LET dot == CHOOSE i \in 1..Len(t) : t[i] = "."
             fr == SubSeq(t, dot + 1, Len(t))
         IN  Frac(DigitsToInt(SubSeq(t, 1, dot - 1)) * Pow10(Len(fr)) + DigitsToInt(fr),
                  Pow10(Len(fr)))
    ELSE Frac(DigitsToInt(t), 1)

----------------------------------------------------------------------------
(* src/app/analysis.py: extract_score_from_analysis.                       *)

\* the index after the longest run of digits that starts at i (\d+, greedy)
DigitsEnd(s, i) ==
    CHOOSE j \in i..(Len(s) + 1) :
        /\ \A k \in i..(j - 1) : IsDigit(s[k])
        /\ j = Len(s) + 1 \/ ~IsDigit(s[j])

\* the index after the longest run of whitespace that starts at i (\s*)
SpaceEnd(s, i) ==
    CHOOSE j \in i..(Len(s) + 1) :
        /\ \A k \in i..(j - 1) : IsSpace(s[k])
        /\ j = Len(s) + 1 \/ ~IsSpace(s[j])

\* the index after the match of (\d+(?:\.\d+)?) at i: all the digits, and a
\* fraction when a dot and a digit follow (the quantifiers are greedy)
NumberEnd(s, i) ==
    LET e == DigitsEnd(s, i)
    IN  IF e + 1 <= Len(s) /\ s[e] = "." /\ IsDigit(s[e + 1])
        THEN DigitsEnd(s, e + 1)
        ELSE e

\* the index after the integer part alone
IntegerEnd(s, i) == DigitsEnd(s, i)

\* s[i:] starts with p up to the case of the letters
StartsAtIgnoreCase(s, i, p) ==
    /\ i + Len(p) - 1 <= Len(s)
    /\ \A k \in 1..Len(p) : LowerChar(s[i + k - 1]) = LowerChar(p[k])

Slash10 == <<"/", "1", "0">>

\* the four patterns with the generic ones tried first (a variant, not the
\* code)
patterns_generic_first(st) ==
    << [label |-> <<"S", "c", "o", "r", "e", ":">>, ten |-> TRUE],
       [label |-> <<"S", "c", "o", "r", "e", ":">>, ten |-> FALSE],
       [label |-> st \o <<":">>, ten |-> TRUE],
       [label |-> st \o <<":">>, ten |-> FALSE] >>

\* the four regular expressions of patterns, for score_type st:
\* label ":" \s* (\d+(?:\.\d+)?) and, when ten, "/10"
patterns(st) ==
    << [label |-> st \o <<":">>, ten |-> TRUE],
       [label |-> st \o <<":">>, ten |-> FALSE],
       [label |-> <<"S", "c", "o", "r", "e", ":">>, ten |-> TRUE],
       [label |-> <<"S", "c", "o", "r", "e", ":">>, ten |-> FALSE] >>

\* the capture group of the match of pattern pat that starts at i, or <<>>
\* when there is none; re.IGNORECASE compares the label case-insensitively
GroupAt(s, i, pat) ==
    IF ~StartsAtIgnoreCase(s, i, pat.label) THEN <<>>
    ELSE LET k == SpaceEnd(s, i + Len(pat.label))
         IN  IF k > Len(s) \/ ~IsDigit(s[k]) THEN <<>>
             ELSE IF ~pat.ten THEN SubSeq(s, k, NumberEnd(s, k) - 1)
             ELSE IF StartsAt(s, NumberEnd(s, k), Slash10)
                  THEN SubSeq(s, k, NumberEnd(s, k) - 1)
             ELSE IF StartsAt(s, IntegerEnd(s, k), Slash10)
                  THEN SubSeq(s, k, IntegerEnd(s, k) - 1)
             ELSE <<>>

\* re.findall(pattern, analysis_text, re.IGNORECASE): whether it is non-empty,
\* and matches[0], the group of the leftmost match
HasMatch(s, pat) == \E i \in 1..Len(s) : GroupAt(s, i, pat) # <<>>

FirstGroup(s, pat) ==
    LET i == CHOOSE i \in 1..Len(s) :
                 /\ GroupAt(s, i, pat) # <<>>
                 /\ \A k \in 1..(i - 1) : GroupAt(s, k, pat) = <<>>
    IN  GroupAt(s, i, pat)

\* the dict score_keywords, in its insertion order
score_keywords ==
    << [keyword |-> <<"l", "o", "w">>, score |-> Frac(3, 1)],
       [keyword |-> <<"m", "i", "n", "i", "m", "a", "l">>, score |-> Frac(2, 1)],
       [keyword |-> <<"h", "i", "g", "h">>, score |-> Frac(8, 1)],
       [keyword |-> <<"v", "e", "r", "y", " ", "h", "i", "g", "h">>, score |-> Frac(9, 1)],
       [keyword |-> <<"e", "x", "c", "e", "l", "l", "e", "n", "t">>, score |-> Frac(9, 1)],
       [keyword |-> <<"g", "o", "o", "d">>, score |-> Frac(7, 1)],
       [keyword |-> <<"m", "o", "d", "e", "r", "a", "t", "e">>, score |-> Frac(5, 1)],
       [keyword |-> <<"p", "o", "o", "r">>, score |-> Frac(3, 1)] >>

\* the neutral default 5.0
DefaultScore == Frac(5, 1)

\* the keyword fallback taking the last keyword of score_keywords that occurs
\* (a variant, not the code)
keyword_score_last(s) ==
    LET hit(i) == contains(lower(s), score_keywords[i].keyword)
    IN  IF \E i \in 1..Len(score_keywords) : hit(i)
        THEN score_keywords[CHOOSE i \in 1..Len(score_keywords) :
                                hit(i) /\ \A k \in (i + 1)..Len(score_keywords) : ~hit(k)].score
        ELSE DefaultScore

\* the keyword fallback: the first keyword of score_keywords in text_lower
keyword_score(s) ==
    LET hit(i) == contains(lower(s), score_keywords[i].keyword)
    IN  IF \E i \in 1..Len(score_keywords) : hit(i)
        THEN score_keywords[CHOOSE i \in 1..Len(score_keywords) :
                                hit(i) /\ \A k \in 1..(i - 1) : ~hit(k)].score
        ELSE DefaultScore

\* a variant of clamp that returns the parsed number as it is
clamp_none(score) == score

\* min(10.0, max(1.0, score))
clamp(score) == FMin(Frac(10, 1), FMax(Frac(1, 1), score))

extract_score_from_analysis(analysis_text, score_type) ==
    IF ~Truthy(analysis_text) THEN DefaultScore
    ELSE LET s == analysis_text.s
             ps == patterns(score_type)
         IN  IF \E i \in 1..Len(ps) : HasMatch(s, ps[i])
             THEN clamp(float(FirstGroup(s,
                      ps[CHOOSE i \in 1..Len(ps) :
                             HasMatch(s, ps[i]) /\ \A k \in 1..(i - 1) : ~HasMatch(s, ps[k])])))
             ELSE keyword_score(s)

----------------------------------------------------------------------------
(* src/app/analysis.py: calculate_h_score.                                 *)

RiskScore == <<"R", "i", "s", "k", " ", "S", "c", "o", "r", "e">>
TrustScore == <<"T", "r", "u", "s", "t", " ", "S", "c", "o", "r", "e">>
ConfidenceScore == <<"C", "o", "n", "f", "i", "d", "e", "n", "c", "e", " ", "S", "c", "o", "r", "e">>

\* a filter that drops a response when it starts with "[" or contains
\* "error" (a variant, not the code)
successful_neither(r) ==
    /\ ~startswith(r.response, <<"[">>)
    /\ ~contains(lower(r.response), <<"e", "r", "r", "o", "r">>)

\* a response counts as successful unless it starts with "[" and contains "error"
successful(r) ==
    \/ ~startswith(r.response, <<"[">>)
    \/ ~contains(lower(r.response), <<"e", "r", "r", "o", "r">>)

successful_responses(rs) == {i \in 1..Len(rs) : successful(rs[i])}

response_quality(rs) ==
    IF Len(rs) > 0
    THEN FMul(Frac(Cardinality(successful_responses(rs)), Len(rs)), Frac(10, 1))
    ELSE Frac(5, 1)

\* a variant of Weight: a third for each component
Weight_third == Frac(1, 3)

\* 0.25, the weight of each of the four components
Weight == Frac(25, 100)

\* a variant of safety_score that inverts the risk on a scale of ten
safety_score_ten(risk_score) == FSub(Frac(10, 1), risk_score)

\* safety_score = 11.0 - risk_score
safety_score(risk_score) == FSub(Frac(11, 1), risk_score)

calculate_h_score(rs, red, blue, purple) ==
    LET risk_score == extract_score_from_analysis(red, RiskScore)
        trust_score == extract_score_from_analysis(blue, TrustScore)
        confidence_score == extract_score_from_analysis(purple, ConfidenceScore)
        safety == safety_score(risk_score)
        quality == response_quality(rs)
        final_score ==
            FAdd(FAdd(FMul(safety, Weight), FMul(trust_score, Weight)),
                 FAdd(FMul(confidence_score, Weight), FMul(quality, Weight)))
    IN  [final |-> round(final_score, 2),
         safety |-> round(safety, 1),
         trust |-> round(trust_score, 1),
         confidence |-> round(confidence_score, 1),
         quality |-> round(quality, 1)]

----------------------------------------------------------------------------
(* src/app/analysis.py: the three reviews and run_team_analysis;           *)
(* src/main.py: the part of query_endpoint that calls them and the scorer. *)

Reviews == {"red", "blue", "purple"}

TeamName(t) ==
    CASE t = "red" -> <<"R", "e", "d">>
      [] t = "blue" -> <<"B", "l", "u", "e">>
      [] t = "purple" -> <<"P", "u", "r", "p", "l", "e">>

\* analysis.py builds its own openai_client from OPENAI_API_KEY
openai_client == "OpenAI" \in api_keys

\* texts of the exceptions chat.completions.create raises in a review
ReviewExceptionTexts == {<<"R", "e", "q", "u", "e", "s", "t", " ", "t", "i", "m", "e", "d", " ", "o", "u", "t", ".">>, <<"S", "e", "r", "v", "e", "r", " ", "o", "v", "e", "r", "l", "o", "a", "d", "e", "d", ":", " ", "h", "i", "g", "h", " ", "d", "e", "m", "a", "n", "d">>}

\* contents the analysis model answers with
ReviewTexts(t) ==
    CASE t = "red" -> {<<"R", "i", "s", "k", " ", "S", "c", "o", "r", "e", ":", " ", "7", "/", "1", "0">>, <<" ">>}
      [] t = "blue" -> {<<"T", "r", "u", "s", "t", " ", "S", "c", "o", "r", "e", ":", " ", "8", "/", "1", "0", " ", "\n">>, <<" ">>}
      [] t = "purple" -> {<<"C", "o", "n", "f", "i", "d", "e", "n", "c", "e", " ", "S", "c", "o", "r", "e", ":", " ", "9", "/", "1", "0">>}

ReviewOutcomes(t) ==
    {Outcome("raise", 0, "none", e) : e \in ReviewExceptionTexts}
    \cup {Outcome("http", HTTP_OK, "content", c) : c \in ReviewTexts(t)}
    \cup {Outcome("http", HTTP_OK, "none_content", <<>>)}

\* "<Team> Team analysis unavailable (OpenAI API key required)"
analysis_unavailable(t) ==
    Str(TeamName(t) \o <<" ", "T", "e", "a", "m", " ", "a", "n", "a", "l", "y", "s", "i", "s", " ", "u", "n", "a", "v", "a", "i", "l", "a", "b", "l", "e", " ", "(", "O", "p", "e", "n", "A", "I", " ", "A", "P", "I", " ", "k", "e", "y", " ", "r", "e", "q", "u", "i", "r", "e", "d", ")">>)

\* except Exception as e: return f"<Team> Team analysis failed: {str(e)}"
analysis_failed(t, e) == Str(TeamName(t) \o <<" ", "T", "e", "a", "m", " ", "a", "n", "a", "l", "y", "s", "i", "s", " ", "f", "a", "i", "l", "e", "d", ":", " ">> \o e)

\* the body shared by perform_red_team_analysis, perform_blue_team_analysis
\* and perform_purple_team_analysis, once the API call (if made) gave o
perform_team_analysis(t, client, o) ==
    IF ~client THEN analysis_unavailable(t)
    ELSE IF o.kind = "raise" THEN analysis_failed(t, o.text)
    ELSE IF o.payload = "empty_choices" THEN analysis_failed(t, IndexErrorText)
    ELSE IF o.payload = "none_content" THEN analysis_failed(t, AttributeErrorText)
    ELSE Str(strip(o.text))

perform_red_team_analysis(client, o) == perform_team_analysis("red", client, o)

\* a variant of perform_blue_team_analysis that runs the red review's body
perform_blue_team_analysis_as_red(client, o) == perform_team_analysis("red", client, o)

perform_blue_team_analysis(client, o) == perform_team_analysis("blue", client, o)

perform_purple_team_analysis(client, o) == perform_team_analysis("purple", client, o)

\* the review toggles of a QueryRequest
Requests ==
    [enable_red_team : BOOLEAN, enable_blue_team : BOOLEAN,
     enable_purple_team : BOOLEAN]

\* result lists the dispatcher hands over: every adapter without its key,
\* every adapter answering, every adapter failing, and a mix
ResponseLists ==
    LET answer == CHOOSE t \in AnswerTexts : TRUE
        timeout == CHOOSE e \in ExceptionTexts : TRUE
        all(f(_)) == [i \in 1..Len(Funcs) |-> f(Funcs[i])]
        ok(p) == adapter_result(p, Outcome("http", HTTP_OK, "content", answer)).value
        ko(p) == adapter_result(p, Outcome("raise", 0, "none", timeout)).value
        mix(p) == IF p = "Perplexity" THEN ko(p) ELSE ok(p)
    IN  {all(unavailable), all(ok), all(ko), all(mix)}

NoCall == [called |-> FALSE, red_analysis |-> None, blue_analysis |-> None]

NoTeam == [present |-> FALSE, red_team |-> None, blue_team |-> None,
           purple_team |-> None]

NoScore == [final |-> Frac(0, 1), safety |-> Frac(0, 1), trust |-> Frac(0, 1),
            confidence |-> Frac(0, 1), quality |-> Frac(0, 1)]

InitTeamLocals ==
    /\ review_task = [t \in {"red", "blue"} |-> "unsubmitted"]
    /\ review_outcome = [t \in Reviews |-> NoOutcome]
    /\ review_future = [t \in {"red", "blue"} |-> None]
    /\ red_analysis = None
    /\ blue_analysis = None
    /\ purple_analysis = None
    /\ purple_args = NoCall
    /\ team_analysis = NoTeam
    /\ h_score = NoScore

\* query_endpoint, "Run team analyses if enabled": run_team_analysis is
\* called when at least one toggle is on
TeamEnter ==
    /\ epc = "analysis"
    /\ epc' = IF \/ request.enable_red_team
                 \/ request.enable_blue_team
                 \/ request.enable_purple_team
              THEN "submit_red" ELSE "score"
    /\ UNCHANGED <<dvars, xvars, qvars, vvars, avars, request, responses, review_task, review_outcome,
                   review_future, red_analysis, blue_analysis, purple_analysis,
                   purple_args, team_analysis, h_score>>

\* if enable_red: futures['red'] = executor.submit(perform_red_team_analysis, ...)
SubmitRed ==
    /\ epc = "submit_red"
    /\ review_task' = IF request.enable_red_team
                      THEN [review_task EXCEPT !["red"] = "running"]
                      ELSE review_task
    /\ epc' = "submit_blue"
    /\ UNCHANGED <<dvars, xvars, qvars, vvars, avars, request, responses, review_outcome, review_future,
                   red_analysis, blue_analysis, purple_analysis, purple_args,
                   team_analysis, h_score>>

\* if enable_blue: futures['blue'] = executor.submit(perform_blue_team_analysis, ...)
SubmitBlue ==
    /\ epc = "submit_blue"
    /\ review_task' = IF request.enable_blue_team
                      THEN [review_task EXCEPT !["blue"] = "running"]
                      ELSE review_task
    /\ epc' = "await_red"
    /\ UNCHANGED <<dvars, xvars, qvars, vvars, avars, request, responses, review_outcome, review_future,
                   red_analysis, blue_analysis, purple_analysis, purple_args,
                   team_analysis, h_score>>

\* a worker thread of the two-worker pool runs its review to the end
ReviewRun(t) ==
    /\ review_task[t] = "running"
    /\ \E o \in (IF openai_client THEN ReviewOutcomes(t) ELSE {NoOutcome}) :
        /\ review_outcome' = [review_outcome EXCEPT ![t] = o]
        /\ review_future' =
               [review_future EXCEPT ![t] =
                   IF t = "red" THEN perform_red_team_analysis(openai_client, o)
                   ELSE perform_blue_team_analysis(openai_client, o)]
    /\ review_task' = [review_task EXCEPT ![t] = "done"]
    /\ UNCHANGED <<dvars, xvars, qvars, vvars, avars, request, responses, red_analysis, blue_analysis,
                   purple_analysis, purple_args, team_analysis, h_score, epc>>

\* a variant of future_result that reads the red future for every key
future_result_red(t) == review_future["red"]

\* future.result() of the future stored under key t
future_result(t) == review_future[t]

\* for key, future in futures.items(): the entry 'red', if there is one;
\* future.result() blocks until the task is done
AwaitRed ==
    /\ epc = "await_red"
    /\ IF request.enable_red_team
       THEN /\ review_task["red"] = "done"
            /\ red_analysis' = future_result("red")
       ELSE UNCHANGED red_analysis
    /\ epc' = "await_blue"
    /\ UNCHANGED <<dvars, xvars, qvars, vvars, avars, request, responses, review_task, review_outcome,
                   review_future, blue_analysis, purple_analysis, purple_args,
                   team_analysis, h_score>>

\* the entry 'blue', if there is one; then the with block is left
AwaitBlue ==
    /\ epc = "await_blue"
    /\ IF request.enable_blue_team
       THEN /\ review_task["blue"] = "done"
            /\ blue_analysis' = future_result("blue")
       ELSE UNCHANGED blue_analysis
    /\ epc' = "gate"
    /\ UNCHANGED <<dvars, xvars, qvars, vvars, avars, request, responses, review_task, review_outcome,
                   review_future, red_analysis, purple_analysis, purple_args,
                   team_analysis, h_score>>

\* a variant of purple_gate that does not look at blue_analysis
purple_gate_red_only(enable_purple, red, blue) == enable_purple /\ Truthy(red)

\* if enable_purple and red_analysis and blue_analysis
purple_gate(enable_purple, red, blue) ==
    enable_purple /\ Truthy(red) /\ Truthy(blue)

\* the gate, and when it is open the call
\* perform_purple_team_analysis(query, responses, red_analysis, blue_analysis)
Gate ==
    /\ epc = "gate"
    /\ IF purple_gate(request.enable_purple_team, red_analysis, blue_analysis)
       THEN /\ purple_args' = [called |-> TRUE, red_analysis |-> red_analysis,
                               blue_analysis |-> blue_analysis]
            /\ epc' = "purple_call"
       ELSE /\ UNCHANGED purple_args
            /\ epc' = "team_return"
    /\ UNCHANGED <<dvars, xvars, qvars, vvars, avars, request, responses, review_task, review_outcome,
                   review_future, red_analysis, blue_analysis, purple_analysis,
                   team_analysis, h_score>>

\* perform_purple_team_analysis runs in the calling thread
PurpleRun ==
    /\ epc = "purple_call"
    /\ \E o \in (IF openai_client THEN ReviewOutcomes("purple") ELSE {NoOutcome}) :
        /\ review_outcome' = [review_outcome EXCEPT !["purple"] = o]
        /\ purple_analysis' = perform_purple_team_analysis(openai_client, o)
    /\ epc' = "team_return"
    /\ UNCHANGED <<dvars, xvars, qvars, vvars, avars, request, responses, review_task, review_future,
                   red_analysis, blue_analysis, purple_args, team_analysis,
                   h_score>>

\* return {"red_team": ..., "blue_team": ..., "purple_team": ...}
TeamReturn ==
    /\ epc = "team_return"
    /\ team_analysis' = [present |-> TRUE, red_team |-> red_analysis,
                         blue_team |-> blue_analysis,
                         purple_team |-> purple_analysis]
    /\ epc' = "score"
    /\ UNCHANGED <<dvars, xvars, qvars, vvars, avars, request, responses, review_task, review_outcome,
                   review_future, red_analysis, blue_analysis, purple_analysis,
                   purple_args, h_score>>

\* team_analysis.get(key) if team_analysis else ""
score_argument(ta, key) ==
    IF ~ta.present THEN Str(<<>>)
    ELSE CASE key = "red_team" -> ta.red_team
           [] key = "blue_team" -> ta.blue_team
           [] key = "purple_team" -> ta.purple_team

\* query_endpoint, "Calculate H-Score", and the QueryResponse
Score ==
    /\ epc = "score"
    /\ h_score' = calculate_h_score(responses,
                                    score_argument(team_analysis, "red_team"),
                                    score_argument(team_analysis, "blue_team"),
                                    score_argument(team_analysis, "purple_team"))
    /\ epc' = "responded"
    /\ UNCHANGED <<dvars, xvars, qvars, vvars, avars, request, responses, review_task, review_outcome,
                   review_future, red_analysis, blue_analysis, purple_analysis,
                   purple_args, team_analysis>>

----------------------------------------------------------------------------
(* src/app/truth_verification.py: TruthVerificationEngine.                 *)

IsAlpha(c) == \E i \in 1..26 : Upper[i] = c \/ Lower[i] = c

IsAlnum(c) == IsAlpha(c) \/ IsDigit(c)

\* \w of the re module
IsWord(c) == IsAlnum(c) \/ c = "_"

\* \b before the character at index i (i = Len(s) + 1: at the end)
WordBoundary(s, i) ==
    (i > 1 /\ i - 1 <= Len(s) /\ IsWord(s[i - 1])) # (i <= Len(s) /\ IsWord(s[i]))

\* \b(20\d{2})\b matches at index i
YearAt(s, i) ==
    /\ i + 3 <= Len(s)
    /\ StartsAt(s, i, <<"2", "0">>)
    /\ IsDigit(s[i + 2])
    /\ IsDigit(s[i + 3])
    /\ WordBoundary(s, i)
    /\ WordBoundary(s, i + 4)

\* the years re.findall(r'\b(20\d{2})\b', response) returns, as numbers
years_mentioned(response) ==
    {DigitsToInt(SubSeq(response, i, i + 3)) :
        i \in {k \in 1..Len(response) : YearAt(response, k)}}

\* temporal_score after the first n responses of the loop: every response
\* that mentions a year assigns it anew
RECURSIVE temporal_score_after(_, _, _)
temporal_score_after(rs, n, year) ==
    IF n = 0 THEN Frac(7, 10)
    ELSE LET years == years_mentioned(rs[n].response)
         IN  IF years = {}
             THEN temporal_score_after(rs, n - 1, year)
             ELSE IF \E y \in years : y >= year - 2 THEN Frac(9, 10)
             ELSE IF \E y \in years : y >= year - 5 THEN Frac(7, 10)
             ELSE Frac(4, 10)

\* _check_temporal_accuracy
check_temporal_accuracy(rs, year) ==
    temporal_score_after(rs, Len(rs), year)

\* what the Custom Search request of cross_reference_information can do:
\* raise, answer with a status, and under status 200 carry a number of items
MaxItems == 6

SearchOutcomes ==
    {[kind |-> "raise", status |-> 0, items |-> 0]}
    \cup {[kind |-> "http", status |-> st, items |-> 0] : st \in {403, 500}}
    \cup {[kind |-> "http", status |-> HTTP_OK, items |-> n] : n \in 0..MaxItems}

NoSearch == [kind |-> "none", status |-> 0, items |-> 0]

\* a variant of reliable_score without the cap at 1.0
reliable_score_uncapped(n) == Frac(n, 5)

\* min(len(reliable_sources) / 5.0, 1.0)
reliable_score(n) == FMin(Frac(n, 5), Frac(1, 1))

\* _cross_reference_information, once the request (if made) gave o
cross_reference_information(configured, o) ==
    IF ~configured THEN Frac(5, 10)
    ELSE IF o.kind = "raise" THEN Frac(5, 10)
    ELSE IF o.status = HTTP_OK /\ o.items > 0 THEN reliable_score(o.items)
    ELSE Frac(3, 10)

\* [^\s<>"']
IsUrlChar(c) == ~IsSpace(c) /\ c \notin {"<", ">", "\"", "'"}

\* the index after the longest run of [^\s<>"'] that starts at i
UrlCharsEnd(s, i) ==
    CHOOSE j \in i..(Len(s) + 1) :
        /\ \A k \in i..(j - 1) : IsUrlChar(s[k])
        /\ j = Len(s) + 1 \/ ~IsUrlChar(s[j])

\* the index after the longest run of [a-zA-Z0-9-] that starts at i
HostCharsEnd(s, i) ==
    CHOOSE j \in i..(Len(s) + 1) :
        /\ \A k \in i..(j - 1) : IsAlnum(s[k]) \/ s[k] = "-"
        /\ j = Len(s) + 1 \/ ~(IsAlnum(s[j]) \/ s[j] = "-")

\* the index after the longest run of [a-zA-Z] that starts at i
AlphaEnd(s, i) ==
    CHOOSE j \in i..(Len(s) + 1) :
        /\ \A k \in i..(j - 1) : IsAlpha(s[k])
        /\ j = Len(s) + 1 \/ ~IsAlpha(s[j])

\* the length of https:// or http:// at index i, 0 when neither is there
SchemeLen(s, i) ==
    IF StartsAt(s, i, <<"h", "t", "t", "p", "s", ":", "/", "/">>) THEN 8
    ELSE IF StartsAt(s, i, <<"h", "t", "t", "p", ":", "/", "/">>) THEN 7
    ELSE 0

\* the index after the match of one alternative of url_pattern at i, 0 when
\* it does not match there
\* https?://[^\s<>"']+
SchemeUrlEnd(s, i) ==
    LET a == i + SchemeLen(s, i)
    IN  IF SchemeLen(s, i) > 0 /\ UrlCharsEnd(s, a) > a
        THEN UrlCharsEnd(s, a) ELSE 0

\* www\.[^\s<>"']+
WwwUrlEnd(s, i) ==
    IF StartsAt(s, i, <<"w", "w", "w", ".">>) /\ UrlCharsEnd(s, i + 4) > i + 4
    THEN UrlCharsEnd(s, i + 4) ELSE 0

\* \b[a-zA-Z0-9][a-zA-Z0-9-]*\.[a-zA-Z]{2,}\b
DomainEnd(s, i) ==
    IF i <= Len(s) /\ IsAlnum(s[i]) /\ WordBoundary(s, i)
    THEN LET dot == HostCharsEnd(s, i + 1)
             e == AlphaEnd(s, dot + 1)
         IN  IF /\ dot <= Len(s)
                /\ s[dot] = "."
                /\ e >= dot + 3
                /\ WordBoundary(s, e)
             THEN e ELSE 0
    ELSE 0

\* the first alternative that matches at i decides
UrlEnd(s, i) ==
    IF SchemeUrlEnd(s, i) > 0 THEN SchemeUrlEnd(s, i)
    ELSE IF WwwUrlEnd(s, i) > 0 THEN WwwUrlEnd(s, i)
    ELSE DomainEnd(s, i)

\* re.findall(url_pattern, response[i:]): leftmost matches, not overlapping
RECURSIVE findall_urls(_, _)
findall_urls(s, i) ==
    IF i > Len(s) THEN <<>>
    ELSE IF UrlEnd(s, i) > 0
         THEN <<SubSeq(s, i, UrlEnd(s, i) - 1)>> \o findall_urls(s, UrlEnd(s, i))
         ELSE findall_urls(s, i + 1)

\* urls[:3], each with 'https://' put in front unless it starts with 'http'
urls_of(response) ==
    LET urls == findall_urls(response, 1)
        n == IF Len(urls) < 3 THEN Len(urls) ELSE 3
    IN  [k \in 1..n |->
            IF startswith(urls[k], <<"h", "t", "t", "p">>) THEN urls[k]
            ELSE <<"h", "t", "t", "p", "s", ":", "/", "/">> \o urls[k]]

\* the URLs _verify_sources requests, in the order of its two loops
RECURSIVE urls_to_verify(_, _)
urls_to_verify(rs, n) ==
    IF n = 0 THEN <<>>
    ELSE urls_to_verify(rs, n - 1) \o urls_of(rs[n].response)

\* urlparse(url).netloc.lower() of a URL with an http or https scheme
netloc(url) ==
    LET a == 1 + SchemeLen(url, 1)
        ends == {k \in a..Len(url) : url[k] \in {"/", "?", "#"}}
        b == IF ends = {} THEN Len(url) + 1
             ELSE CHOOSE k \in ends : \A m \in ends : k <= m
    IN  lower(SubSeq(url, a, b - 1))

reliable_domains ==
    <<<<".", "e", "d", "u">>, <<".", "g", "o", "v">>, <<".", "o", "r", "g">>, <<"r", "e", "u", "t", "e", "r", "s", ".", "c", "o", "m">>, <<"b", "b", "c", ".", "c", "o", "m">>,
      <<"n", "a", "t", "u", "r", "e", ".", "c", "o", "m">>, <<"s", "c", "i", "e", "n", "c", "e", ".", "o", "r", "g">>, <<"n", "i", "h", ".", "g", "o", "v">>, <<"w", "h", "o", ".", "i", "n", "t">>>>

\* any(reliable in domain for reliable in reliable_domains)
is_reliable(domain) ==
    \E k \in 1..Len(reliable_domains) : contains(domain, reliable_domains[k])

\* what requests.head(url, timeout=5, allow_redirects=True) can do: answer
\* with a status below 400, answer with another status, raise; a URL
\* without http:// or https:// makes it raise before any request
HeadOutcomes(url) ==
    IF SchemeLen(url, 1) = 0 THEN {"raise"}
    ELSE {"verified", "status", "raise"}

NoSources == [urls_found |-> 0, urls_verified |-> 0, reliable_sources |-> 0,
              broken_links |-> 0]

\* one turn of the loop over the URLs in _verify_sources
verify_source(sv, url, head) ==
    [urls_found |-> sv.urls_found + 1,
     urls_verified |-> sv.urls_verified + (IF head = "verified" THEN 1 ELSE 0),
     reliable_sources |-> sv.reliable_sources
        + (IF head = "verified" /\ is_reliable(netloc(url)) THEN 1 ELSE 0),
     broken_links |-> sv.broken_links + (IF head = "verified" THEN 0 ELSE 1)]

\* source_score with the two weights exchanged (a variant, not the code)
source_score_swapped(sv) ==
    IF sv.urls_found > 0
    THEN FAdd(FMul(Frac(sv.urls_verified, sv.urls_found), Frac(4, 10)),
              FMul(Frac(sv.reliable_sources, sv.urls_found), Frac(6, 10)))
    ELSE Frac(7, 10)

\* source_score of calculate_truth_score
source_score(sv) ==
    IF sv.urls_found > 0
    THEN FAdd(FMul(Frac(sv.urls_verified, sv.urls_found), Frac(6, 10)),
              FMul(Frac(sv.reliable_sources, sv.urls_found), Frac(4, 10)))
    ELSE Frac(7, 10)

\* _calculate_truth_score
calculate_truth_score(vr) ==
    round(FAdd(FAdd(FMul(vr.cross_reference_score, Frac(4, 10)),
                    FMul(vr.temporal_accuracy, Frac(3, 10))),
               FAdd(FMul(source_score(vr.source_verification), Frac(2, 10)),
                    FMul(Frac(7, 10), Frac(1, 10)))), 2)

\* _determine_confidence_level with exclusive thresholds (a variant, not the code)
determine_confidence_level_above(truth_score) ==
    IF ~FLe(truth_score, Frac(8, 10)) THEN "high"
    ELSE IF ~FLe(truth_score, Frac(6, 10)) THEN "medium"
    ELSE IF ~FLe(truth_score, Frac(4, 10)) THEN "low"
    ELSE "very_low"

\* _determine_confidence_level
determine_confidence_level(truth_score) ==
    IF FLe(Frac(8, 10), truth_score) THEN "high"
    ELSE IF FLe(Frac(6, 10), truth_score) THEN "medium"
    ELSE IF FLe(Frac(4, 10), truth_score) THEN "low"
    ELSE "very_low"

\* bool(google_api_key) and bool(google_search_engine_id)
search_configured == {"GOOGLE_API_KEY", "GOOGLE_SEARCH_ENGINE_ID"} \subseteq api_keys

\* the dict verify_response_accuracy starts from
InitialResults ==
    [overall_truth_score |-> Frac(0, 1),
     source_verification |-> NoSources,
     cross_reference_score |-> Frac(0, 1),
     temporal_accuracy |-> Frac(0, 1),
     confidence_level |-> "medium",
     warnings |-> <<>>]

\* Step 1 (the extracted claims are not used afterwards) and Step 2:
\* cross_ref_score = self._cross_reference_information(query, ai_responses)
CrossReference ==
    /\ vpc = "cross_reference"
    /\ \E o \in (IF search_configured THEN SearchOutcomes ELSE {NoSearch}) :
        /\ search_outcome' = o
        /\ verification_results' =
               [verification_results EXCEPT !.cross_reference_score =
                   cross_reference_information(search_configured, o)]
    /\ vpc' = "temporal"
    /\ UNCHANGED <<dvars, tvars, xvars, qvars, avars, ai_responses, current_year>>

\* Step 3: temporal_score = self._check_temporal_accuracy(query, ai_responses)
TemporalAccuracy ==
    /\ vpc = "temporal"
    /\ verification_results' =
           [verification_results EXCEPT !.temporal_accuracy =
               check_temporal_accuracy(ai_responses, current_year)]
    /\ vpc' = "sources"
    /\ UNCHANGED <<dvars, tvars, xvars, qvars, avars, ai_responses, current_year,
                   search_outcome>>

\* the URLs of all responses that _verify_sources goes through
AllUrls == urls_to_verify(ai_responses, Len(ai_responses))

\* Step 4, one turn of the inner loop of _verify_sources: the next URL is
\* counted and requested
VerifySource ==
    /\ vpc = "sources"
    /\ verification_results.source_verification.urls_found < Len(AllUrls)
    /\ LET sv == verification_results.source_verification
           url == AllUrls[sv.urls_found + 1]
       IN  \E head \in HeadOutcomes(url) :
               verification_results' =
                   [verification_results EXCEPT !.source_verification =
                       verify_source(sv, url, head)]
    /\ UNCHANGED <<dvars, tvars, xvars, qvars, avars, ai_responses, current_year,
                   search_outcome, vpc>>

\* Steps 5 to 7 and the return: the overall score and its confidence level
CalculateScore ==
    /\ vpc = "sources"
    /\ verification_results.source_verification.urls_found = Len(AllUrls)
    /\ LET overall_score == calculate_truth_score(verification_results)
       IN  verification_results' =
               [verification_results EXCEPT
                   !.overall_truth_score = overall_score,
                   !.confidence_level = determine_confidence_level(overall_score)]
    /\ vpc' = "done"
    /\ UNCHANGED <<dvars, tvars, xvars, qvars, avars, ai_responses, current_year,
                   search_outcome>>

----------------------------------------------------------------------------
(* src/app/auth.py: verify_otp_code, generate_jwt_tokens, verify_jwt_token. *)

\* twilio_client right after the module is imported: None without both
\* credentials; with them the Client, or None when its constructor raised
TwilioClients ==
    IF {"TWILIO_ACCOUNT_SID", "TWILIO_AUTH_TOKEN"} \subseteq api_keys
    THEN {TRUE, FALSE}
    ELSE {FALSE}

DEMO_PHONE == <<"+", "1", "5", "5", "5", "0", "1", "0", "0", "0", "0", "1">>

DEMO_CODE == <<"1", "2", "3", "4", "5", "6">>

\* the three spellings of the demo account's number
is_demo_phone(phone) ==
    \/ phone = DEMO_PHONE
    \/ phone = <<"5", "5", "5", "0", "1", "0", "0", "0", "0", "1">>
    \/ phone = <<"+", "1", " ", "5", "5", "5", "0", "1", "0", "0", "0", "0", "1">>

\* the value of JWT_SECRET
JWT_SECRET == <<"s", "e", "c", "r", "e", "t">>

\* timedelta(hours=24) of the access token
ACCESS_HOURS == 24

\* 24 * 30
JWT_EXPIRATION_HOURS == 720

\* str(n) for n >= 0
RECURSIVE IntToDigits(_)
IntToDigits(n) ==
    IF n < 10 THEN <<Digits[n + 1]>>
    ELSE IntToDigits(n \div 10) \o <<Digits[(n % 10) + 1]>>

\* s.split(".")
RECURSIVE split_dot(_)
split_dot(s) ==
    IF \A i \in 1..Len(s) : s[i] # "." THEN <<s>>
    ELSE LET dot == CHOOSE i \in 1..Len(s) :
                        s[i] = "." /\ \A k \in 1..(i - 1) : s[k] # "."
         IN  <<SubSeq(s, 1, dot - 1)>> \o split_dot(SubSeq(s, dot + 1, Len(s)))

\* the signing input of a token: the claims phone, type, exp and iat, the
\* times in hours
signing_input(payload) ==
    payload.phone \o <<".">> \o payload.type \o <<".">>
        \o IntToDigits(payload.exp) \o <<".">> \o IntToDigits(payload.iat)

\* the signature of a signing input under a key: a string without "." that
\* is a function of both and differs when either differs; nothing else is
\* assumed of HS256
signature(input, key) ==
    key \o <<":">> \o [i \in 1..Len(input) |-> IF input[i] = "." THEN "_" ELSE input[i]]

\* jwt.encode(payload, key, algorithm=JWT_ALGORITHM): signing input, ".",
\* signature
jwt_encode(payload, key) ==
    LET input == signing_input(payload)
    IN  input \o <<".">> \o signature(input, key)

\* a payload dict and, for verify_jwt_token, None
NoPayload == [isNone |-> TRUE, phone |-> <<>>, type |-> <<>>, exp |-> 0, iat |-> 0]

Payload(phone, type, exp, iat) ==
    [isNone |-> FALSE, phone |-> phone, type |-> type, exp |-> exp, iat |-> iat]

\* jwt.decode(token, key, algorithms=[JWT_ALGORITHM]) at time now: "invalid"
\* for InvalidTokenError (malformed, or the signature is not the key's),
\* "expired" for ExpiredSignatureError (exp <= now), else the payload
jwt_decode(token, key, now) ==
    LET parts == split_dot(token)
        numeric(t) == Len(t) > 0 /\ \A i \in 1..Len(t) : IsDigit(t[i])
    IN  IF Len(parts) # 5 THEN [error |-> "invalid", payload |-> NoPayload]
        ELSE LET input == SubSeq(token, 1, Len(token) - Len(parts[5]) - 1)
             IN  IF \/ parts[5] # signature(input, key)
                    \/ ~numeric(parts[3])
                    \/ ~numeric(parts[4])
                 THEN [error |-> "invalid", payload |-> NoPayload]
                 ELSE IF DigitsToInt(parts[3]) <= now
                 THEN [error |-> "expired", payload |-> NoPayload]
                 ELSE [error |-> "none",
                       payload |-> Payload(parts[1], parts[2],
                                           DigitsToInt(parts[3]),
                                           DigitsToInt(parts[4]))]

\* generate_jwt_tokens(phone_number) at time now
generate_jwt_tokens(phone, now) ==
    [access |-> jwt_encode(Payload(phone, <<"a", "c", "c", "e", "s", "s">>, now + ACCESS_HOURS, now),
                           JWT_SECRET),
     refresh |-> jwt_encode(Payload(phone, <<"r", "e", "f", "r", "e", "s", "h">>,
                                    now + JWT_EXPIRATION_HOURS, now),
                            JWT_SECRET)]

\* verify_jwt_token(token) at time now: the payload, None after either
\* exception
verify_jwt_token(token, now) == jwt_decode(token, JWT_SECRET, now).payload

NoTokens == [access |-> <<>>, refresh |-> <<>>]

\* {"success": False}
Failure == [success |-> FALSE, tokens |-> NoTokens, user_id |-> <<>>]

\* {"success": True, "tokens": ..., "user": {"id": ...}}
Success(tokens, user_id) ==
    [success |-> TRUE, tokens |-> tokens, user_id |-> user_id]

\* what verification_checks.create can do: return a check with status
\* 'approved' or with another status, or raise
CheckOutcomes == {"approved", "pending", "raise"}

\* verify_otp_code(phone_number, code), the whole function; check is the
\* outcome of verification_checks.create in case it is called
verify_otp_code(phone, otp, client, check, now) ==
    IF is_demo_phone(phone) /\ otp = DEMO_CODE
    THEN [asked |-> FALSE,
          result |-> Success(generate_jwt_tokens(phone, now),
                             <<"d", "e", "m", "o", "_", "u", "s", "e", "r", "_", "a", "p", "p", "l", "e", "_", "r", "e", "v", "i", "e", "w">>)]
    ELSE IF ~client
    THEN [asked |-> FALSE,
          result |-> IF otp = <<"1", "2", "3", "4", "5", "6">>
                     THEN Success(generate_jwt_tokens(phone, now),
                                  <<"u", "s", "e", "r", "_">> \o phone)
                     ELSE Failure]
    ELSE [asked |-> TRUE,
          result |-> IF check = "approved"
                     THEN Success(generate_jwt_tokens(phone, now),
                                  <<"u", "s", "e", "r", "_">> \o phone)
                     ELSE Failure]

\* result = await verify_otp_code(request.phone_number, request.code)
VerifyOtp ==
    /\ apc = "verify"
    /\ \E check \in CheckOutcomes :
           LET r == verify_otp_code(phone_number, code, twilio_client, check,
                                    utcnow)
           IN  /\ otp_result' = r.result
               /\ check_calls' = check_calls + (IF r.asked THEN 1 ELSE 0)
               /\ check_status' = IF r.asked THEN check ELSE "none"
    /\ apc' = "returned"
    /\ UNCHANGED <<dvars, tvars, xvars, qvars, vvars, phone_number, code,
                   twilio_client, utcnow, jwt_token, jwt_payload>>

\* a token signed with a key that is not JWT_SECRET
ForgedToken(phone, now) ==
    jwt_encode(Payload(phone, <<"a", "c", "c", "e", "s", "s">>, now + ACCESS_HOURS, now), <<"o", "t", "h", "e", "r">>)

\* the strings presented to verify_jwt_token after a login attempt: the
\* tokens it issued, a forged token, and strings that are no token
PresentedTokens ==
    {otp_result.tokens.access, otp_result.tokens.refresh,
     ForgedToken(phone_number, utcnow), <<"t">>, <<>>}

\* how many hours after the login attempt the token is presented
Delays ==
    {0, ACCESS_HOURS - 1, ACCESS_HOURS, JWT_EXPIRATION_HOURS - 1,
     JWT_EXPIRATION_HOURS}

\* payload = verify_jwt_token(token), some hours later
VerifyJwt ==
    /\ apc = "returned"
    /\ \E token \in PresentedTokens, later \in Delays :
           /\ utcnow' = utcnow + later
           /\ jwt_token' = token
           /\ jwt_payload' = verify_jwt_token(token, utcnow')
    /\ apc' = "checked"
    /\ UNCHANGED <<dvars, tvars, xvars, qvars, vvars, phone_number, code,
                   twilio_client, check_calls, check_status, otp_result>>

----------------------------------------------------------------------------
(* Specifications.                                                         *)

\* the dispatcher is not running
IdleDispatch ==
    /\ next_submit = 1
    /\ task = [p \in Providers |-> "unsubmitted"]
    /\ net_requests = [p \in Providers |-> 0]
    /\ net_outcome = [p \in Providers |-> NoOutcome]
    /\ future = [p \in Providers |-> Pending(p)]
    /\ yielded = {}
    /\ results = <<>>
    /\ logged = {}
    /\ qpc = "idle"

\* the endpoint is not running the reviews
IdleTeam ==
    /\ request = [enable_red_team |-> TRUE, enable_blue_team |-> TRUE,
                  enable_purple_team |-> TRUE]
    /\ responses = <<>>
    /\ InitTeamLocals
    /\ epc = "idle"

\* extract_score_from_analysis is not being called on its own
IdleExtract ==
    /\ ex_text = None
    /\ ex_type = RiskScore
    /\ ex_score = DefaultScore
    /\ ex_again = DefaultScore
    /\ ex_pc = "idle"

\* no request has reached query_endpoint's first statement
IdleQuery ==
    /\ authorization = None
    /\ web_search_calls = 0
    /\ web_context = None
    /\ web_search_used = FALSE
    /\ dispatch_calls = 0
    /\ verify_calls = 0

\* verify_response_accuracy is not running
IdleTruth ==
    /\ ai_responses = <<>>
    /\ current_year = 2025
    /\ search_outcome = NoSearch
    /\ verification_results = InitialResults
    /\ vpc = "idle"

\* the hour at which the request to POST /api/query arrives
RequestHour == 30

\* verify_otp_code is not running
IdleAuth ==
    /\ phone_number = <<>>
    /\ code = <<>>
    /\ twilio_client = FALSE
    /\ check_calls = 0
    /\ check_status = "none"
    /\ otp_result = Failure
    /\ utcnow = RequestHour
    /\ jwt_token = <<>>
    /\ jwt_payload = NoPayload
    /\ apc = "idle"

\* one dispatch of query_all_models, for every set of configured API keys
Init ==
    /\ api_keys \in SUBSET Providers
    /\ InitDispatch
    /\ IdleTeam
    /\ IdleExtract
    /\ IdleQuery
    /\ IdleTruth
    /\ IdleAuth

Next ==
    \/ Submit
    \/ \E p \in Providers : AdapterStart(p)
    \/ \E p \in Providers : AdapterRespond(p)
    \/ \E p \in Providers : Collect(p)
    \/ Return

Spec == Init /\ [][Next]_vars

\* the requests-based adapter sets no timeout on requests.post, so nothing
\* obliges its request ever to end
Bounded(p) == p # "Perplexity"

\* the same dispatch with the scheduling the thread pool gives: every
\* runnable thread runs, and a client call that is bounded by its client's
\* timeout ends
SpecFair ==
    /\ Init
    /\ [][Next]_vars
    /\ WF_vars(Submit)
    /\ \A p \in Providers : WF_vars(AdapterStart(p))
    /\ \A p \in Providers : Bounded(p) => WF_vars(AdapterRespond(p))
    /\ \A p \in Providers : WF_vars(Collect(p))
    /\ WF_vars(Return)

\* a defect in an adapter: an exception leaves the adapter function
AdapterDefect(p) ==
    /\ task[p] \in {"submitted", "waiting"}
    /\ future' = [future EXCEPT ![p] = Raised(p)]
    /\ task' = [task EXCEPT ![p] = "done"]
    /\ UNCHANGED <<api_keys, next_submit, net_requests, net_outcome, yielded,
                   results, logged, qpc, tvars, xvars, qvars, vvars, avars>>

NextDefect ==
    \/ Next
    \/ \E p \in Providers : AdapterDefect(p)

\* one dispatch in which adapters may be defective
SpecDefect == Init /\ [][NextDefect]_vars

\* the reviews and the scorer of one query, for every combination of the
\* toggles, with and without the OpenAI key, on a list the dispatcher returned
InitTeam ==
    /\ api_keys \in {{}, {"OpenAI"}}
    /\ IdleDispatch
    /\ request \in Requests
    /\ responses \in ResponseLists
    /\ InitTeamLocals
    /\ epc = "analysis"
    /\ IdleExtract
    /\ IdleQuery
    /\ IdleTruth
    /\ IdleAuth

NextTeam ==
    \/ TeamEnter
    \/ SubmitRed
    \/ SubmitBlue
    \/ \E t \in {"red", "blue"} : ReviewRun(t)
    \/ AwaitRed
    \/ AwaitBlue
    \/ Gate
    \/ PurpleRun
    \/ TeamReturn
    \/ Score

SpecTeam == InitTeam /\ [][NextTeam]_vars

\* pieces of review text: labelled and generic score prefixes in several
\* spellings, numbers inside and outside 1..10, the /10 suffix, keywords
Fragments ==
    {<<"R", "i", "s", "k", " ", "S", "c", "o", "r", "e", ":", " ">>, <<"S", "c", "o", "r", "e", ":">>, <<"t", "r", "u", "s", "t", " ", "s", "c", "o", "r", "e", ":", " ", " ">>, <<"7">>, <<"1", "2", ".", "5">>,
     <<"0">>, <<"/", "1", "0">>, <<" ", "v", "e", "r", "y", " ", "h", "i", "g", "h", " ">>, <<"p", "o", "o", "r">>}

\* how many fragments a text is made of at most
MaxFrags == 3

RECURSIVE TextsOf(_)
TextsOf(n) ==
    IF n = 0 THEN {<<>>}
    ELSE LET shorter == TextsOf(n - 1)
         IN  shorter \cup {t \o f : t \in shorter, f \in Fragments}

\* review texts with several scores, labelled and generic, with and without
\* the /10 suffix, in both orders
SeveralScores ==
    {<<"S", "c", "o", "r", "e", ":", " ", "3", "/", "1", "0", ".", " ", "R", "i", "s", "k", " ", "S", "c", "o", "r", "e", ":", " ", "7">>, <<"R", "i", "s", "k", " ", "S", "c", "o", "r", "e", ":", " ", "3", " ", "t", "h", "e", "n", " ", "R", "i", "s", "k", " ", "S", "c", "o", "r", "e", ":", " ", "8", "/", "1", "0">>,
     <<"S", "c", "o", "r", "e", ":", " ", "2", " ", "a", "n", "d", " ", "s", "c", "o", "r", "e", ":", " ", "4", "/", "1", "0">>, <<"t", "r", "u", "s", "t", " ", "s", "c", "o", "r", "e", ":", " ", "6", " ", "S", "c", "o", "r", "e", ":", " ", "9", "/", "1", "0">>,
     <<"S", "C", "O", "R", "E", ":", " ", "4", ",", " ", "C", "o", "n", "f", "i", "d", "e", "n", "c", "e", " ", "s", "c", "o", "r", "e", ":", " ", "2", ".", "5", "/", "1", "0", ",", " ", "R", "i", "s", "k", " ", "S", "c", "o", "r", "e", ":", " ", "1", "1">>}

\* review texts without a score and with the other keywords of
\* score_keywords
KeywordTexts ==
    {<<"E", "x", "c", "e", "l", "l", "e", "n", "t", " ", "w", "o", "r", "k">>, <<"G", "o", "o", "d", ",", " ", "n", "o", "t", " ", "p", "o", "o", "r">>, <<"m", "i", "n", "i", "m", "a", "l">>,
     <<"M", "o", "d", "e", "r", "a", "t", "e", " ", "t", "o", " ", "L", "O", "W">>, <<"A", "n", " ", "e", "x", "c", "e", "l", "l", "e", "n", "t", " ", "f", "o", "l", "l", "o", "w", "-", "u", "p">>, <<"R", "i", "s", "k", " ", "S", "c", "o", "r", "e", ":", " ", "h", "i", "g", "h">>}

\* the arguments analysis_text can take: None, "", the texts made of at most
\* MaxFrags fragments, and the texts above
AnalysisTexts ==
    {None} \cup {Str(t) : t \in TextsOf(MaxFrags) \cup SeveralScores \cup KeywordTexts}

ScoreTypes == {RiskScore, TrustScore, ConfidenceScore}

\* score = extract_score_from_analysis(analysis_text, score_type)
Extract ==
    /\ ex_pc = "call"
    /\ ex_score' = extract_score_from_analysis(ex_text, ex_type)
    /\ ex_pc' = "called"
    /\ UNCHANGED <<dvars, tvars, qvars, vvars, avars, ex_text, ex_type, ex_again>>

\* the same call once more
ExtractAgain ==
    /\ ex_pc = "called"
    /\ ex_again' = extract_score_from_analysis(ex_text, ex_type)
    /\ ex_pc' = "done"
    /\ UNCHANGED <<dvars, tvars, qvars, vvars, avars, ex_text, ex_type, ex_score>>

\* the score extractor on every text and every label
InitExtract ==
    /\ api_keys = {}
    /\ IdleDispatch
    /\ IdleTeam
    /\ ex_text \in AnalysisTexts
    /\ ex_type \in ScoreTypes
    /\ ex_score = DefaultScore
    /\ ex_again = DefaultScore
    /\ ex_pc = "call"
    /\ IdleQuery
    /\ IdleTruth
    /\ IdleAuth

NextExtract ==
    \/ Extract
    \/ ExtractAgain

SpecExtract == InitExtract /\ [][NextExtract]_vars

\* review texts handed to the scorer under a label: absent, empty, a
\* labelled score at both ends of the scale, inside it and below it, and a
\* text without a number
FindingTexts(score_type) ==
    {None, Str(<<>>), Str(<<"v", "e", "r", "y", " ", "h", "i", "g", "h">>)}
    \cup {Str(score_type \o <<":", " ">> \o n \o <<"/", "1", "0">>) :
              n \in {<<"0">>, <<"1">>, <<"7">>, <<"1", "0">>}}

\* the dicts run_team_analysis can hand over, and no dict at all
TeamAnalyses ==
    {NoTeam} \cup
    {[present |-> TRUE, red_team |-> r, blue_team |-> b, purple_team |-> p] :
        r \in FindingTexts(RiskScore), b \in FindingTexts(TrustScore),
        p \in FindingTexts(ConfidenceScore)}

\* result lists at the edges of the scorer's filter: no result, a bracketed
\* text without "error", "error" without a bracket, a bracketed error in
\* capitals, an empty text
LooseResults ==
    {<<>>,
     <<Result("OpenRouter", <<"[", "d", "r", "a", "f", "t", "]", " ", "f", "i", "n", "e">>),
       Result("Perplexity", <<"A", "n", " ", "e", "r", "r", "o", "r", " ", "o", "c", "c", "u", "r", "r", "e", "d">>),
       Result("Grok", <<"[", "G", "r", "o", "k", " ", "E", "R", "R", "O", "R", ":", " ", "b", "o", "o", "m", "]">>)>>,
     <<Result("OpenRouter", <<"[", "1", "]", " ", "s", "e", "e", " ", "n", "o", "t", "e">>)>>,
     <<Result("Grok", <<"E", "r", "r", "o", "r">>), Result("OpenRouter", <<>>)>>}

\* query_endpoint at "Calculate H-Score", for every result list and every
\* combination of review texts
InitScore ==
    /\ api_keys = {}
    /\ IdleDispatch
    /\ request = [enable_red_team |-> TRUE, enable_blue_team |-> TRUE,
                  enable_purple_team |-> TRUE]
    /\ responses \in ResponseLists \cup LooseResults
    /\ review_task = [t \in {"red", "blue"} |-> "done"]
    /\ review_outcome = [t \in Reviews |-> NoOutcome]
    /\ review_future = [t \in {"red", "blue"} |-> None]
    /\ red_analysis = None
    /\ blue_analysis = None
    /\ purple_analysis = None
    /\ purple_args = NoCall
    /\ team_analysis \in TeamAnalyses
    /\ h_score = NoScore
    /\ epc = "score"
    /\ IdleExtract
    /\ IdleQuery
    /\ IdleTruth
    /\ IdleAuth

NextScore == Score

SpecScore == InitScore /\ [][NextScore]_vars

----------------------------------------------------------------------------
(* src/main.py: query_endpoint from its first statement; src/app/web_search.py *)

\* a variant of authorized that lets every request in
authorized_any(a) == TRUE

\* not (not authorization or not authorization.startswith("Bearer "))
authorized(a) == Truthy(a) /\ startswith(a.s, <<"B", "e", "a", "r", "e", "r", " ">>)

HTTP_UNAUTHORIZED == 401

\* the status of the HTTP response, 0 while there is none
status_code ==
    CASE epc = "rejected" -> HTTP_UNAUTHORIZED
      [] epc = "responded" -> HTTP_OK
      [] OTHER -> 0

\* bool(TAVILY_API_KEY) or bool(GOOGLE_API_KEY and GOOGLE_SEARCH_ENGINE_ID)
is_web_search_available ==
    \/ "TAVILY_API_KEY" \in api_keys
    \/ {"GOOGLE_API_KEY", "GOOGLE_SEARCH_ENGINE_ID"} \subseteq api_keys

\* what the two search services can do with a request
TavilyOutcomes == {"context", "status", "raise"}
GoogleOutcomes == {"items", "no_items", "status", "raise"}

SearchContext == Str(<<"W", "e", "b", " ", "S", "e", "a", "r", "c", "h", " ", "R", "e", "s", "u", "l", "t", "s", ":">>)

\* Tavily first, Google Custom Search as the fallback, None when neither
\* gives a context
get_web_search_context(tavily, google) ==
    IF "TAVILY_API_KEY" \in api_keys /\ tavily = "context" THEN SearchContext
    ELSE IF /\ {"GOOGLE_API_KEY", "GOOGLE_SEARCH_ENGINE_ID"} \subseteq api_keys
            /\ google = "items"
         THEN SearchContext
    ELSE None

\* if not authorization or not authorization.startswith("Bearer "):
\*     raise HTTPException(status_code=401, ...)
Authorize ==
    /\ epc = "request"
    /\ epc' = IF authorized(authorization) THEN "web_search" ELSE "rejected"
    /\ UNCHANGED <<dvars, xvars, qvars, vvars, avars, request, responses, review_task,
                   review_outcome, review_future, red_analysis, blue_analysis,
                   purple_analysis, purple_args, team_analysis, h_score>>

\* "Get web search context if enabled"
WebSearch ==
    /\ epc = "web_search"
    /\ IF /\ request.enable_web_search
          /\ request.analysis_depth \in {"standard", "comprehensive"}
          /\ is_web_search_available
       THEN \E tavily \in TavilyOutcomes, google \in GoogleOutcomes :
               /\ web_search_calls' = web_search_calls + 1
               /\ web_context' = get_web_search_context(tavily, google)
               /\ web_search_used' = (web_context' # None)
       ELSE UNCHANGED <<web_search_calls, web_context, web_search_used>>
    /\ epc' = "dispatch"
    /\ UNCHANGED <<dvars, xvars, vvars, avars, authorization, dispatch_calls,
                   verify_calls, request, responses, review_task,
                   review_outcome, review_future, red_analysis, blue_analysis,
                   purple_analysis, purple_args, team_analysis, h_score>>

\* model_responses = await query_all_models(...)
Dispatch ==
    /\ epc = "dispatch"
    /\ dispatch_calls' = dispatch_calls + 1
    /\ responses' \in ResponseLists
    /\ epc' = "analysis"
    /\ UNCHANGED <<dvars, xvars, vvars, avars, authorization, web_search_calls,
                   web_context, web_search_used, verify_calls, request,
                   review_task, review_outcome, review_future, red_analysis,
                   blue_analysis, purple_analysis, purple_args, team_analysis,
                   h_score>>

\* the access token of a login at the given hour
AccessToken(hour) == generate_jwt_tokens(DEMO_PHONE, hour).access

\* the Authorization headers a request can carry: none, empty, with the
\* access token of a login one hour ago and of one at hour 0, with a string
\* that is no token, without a token, and with other schemes
Authorizations ==
    {None, Str(<<>>), Str(<<"B", "e", "a", "r", "e", "r", " ">> \o AccessToken(RequestHour - 1)),
     Str(<<"B", "e", "a", "r", "e", "r", " ">> \o AccessToken(0)), Str(<<"B", "e", "a", "r", "e", "r", " ", "t">>), Str(<<"B", "e", "a", "r", "e", "r", " ">>),
     Str(<<"b", "e", "a", "r", "e", "r", " ", "t">>), Str(<<"B", "a", "s", "i", "c", " ", "t">>)}

\* the fields of a QueryRequest that query_endpoint or its callees read
QueryRequests ==
    [enable_red_team : BOOLEAN, enable_blue_team : BOOLEAN,
     enable_purple_team : BOOLEAN, enable_web_search : BOOLEAN,
     enable_truth_verification : BOOLEAN,
     analysis_depth : {"quick", "standard", "comprehensive"}]

\* the search services configured in the environment
SearchKeys ==
    {{}, {"TAVILY_API_KEY"}, {"GOOGLE_API_KEY"},
     {"GOOGLE_API_KEY", "GOOGLE_SEARCH_ENGINE_ID"}}

\* one request to POST /api/query
InitQuery ==
    /\ api_keys \in SearchKeys
    /\ IdleDispatch
    /\ request \in QueryRequests
    /\ responses = <<>>
    /\ InitTeamLocals
    /\ epc = "request"
    /\ IdleExtract
    /\ authorization \in Authorizations
    /\ web_search_calls = 0
    /\ web_context = None
    /\ web_search_used = FALSE
    /\ dispatch_calls = 0
    /\ verify_calls = 0
    /\ IdleTruth
    /\ IdleAuth

NextQuery ==
    \/ Authorize
    \/ WebSearch
    \/ Dispatch
    \/ NextTeam

SpecQuery == InitQuery /\ [][NextQuery]_vars

\* response texts: years near the current year, older, of the last
\* century and in the future, and URLs of every form url_pattern matches
VerifiedTexts ==
    {<<"S", "i", "n", "c", "e", " ", "2", "0", "2", "5", ".">>, <<"I", "n", " ", "2", "0", "1", "0", " ", "o", "r", " ", "2", "0", "2", "1">>, <<"O", "n", "l", "y", " ", "2", "0", "1", "9">>, <<"P", "a", "r", "i", "s", ".">>,
     <<"I", "n", " ", "1", "9", "9", "9", ",", " ", "x", "2", "0", "2", "4">>, <<"B", "y", " ", "2", "0", "3", "0", ".">>,
     <<"S", "e", "e", " ", "h", "t", "t", "p", "s", ":", "/", "/", "w", "h", "o", ".", "i", "n", "t", "/", "a", " ", "a", "n", "d", " ", "b", "b", "c", ".", "c", "o", "m">>, <<"w", "w", "w", ".", "a", ".", "i", "o", ",", " ", "h", "t", "t", "p", ".", "c", "o", ",", " ", "c", ".", "d", "e", " ", "d", ".", "f", "r">>}

\* the response lists handed to the engine: none, one or two responses
VerifiedResponseLists ==
    {<<>>}
    \cup {<<Result("A", a)>> : a \in VerifiedTexts}
    \cup {<<Result("A", a), Result("B", b)>> : a, b \in VerifiedTexts}

CurrentYears == {2025, 2026}

\* one call of verify_response_accuracy
InitTruth ==
    /\ api_keys \in {{}, {"GOOGLE_API_KEY"},
                     {"GOOGLE_API_KEY", "GOOGLE_SEARCH_ENGINE_ID"}}
    /\ IdleDispatch
    /\ IdleTeam
    /\ IdleExtract
    /\ IdleQuery
    /\ ai_responses \in VerifiedResponseLists
    /\ current_year \in CurrentYears
    /\ search_outcome = NoSearch
    /\ verification_results = InitialResults
    /\ vpc = "cross_reference"
    /\ IdleAuth

NextTruth ==
    \/ CrossReference
    \/ TemporalAccuracy
    \/ VerifySource
    \/ CalculateScore

SpecTruth == InitTruth /\ [][NextTruth]_vars

----------------------------------------------------------------------------
(* src/app/auth.py: one login attempt, and a token presented afterwards.   *)

\* the Twilio credentials set in the environment
TwilioKeys ==
    {{}, {"TWILIO_ACCOUNT_SID"}, {"TWILIO_ACCOUNT_SID", "TWILIO_AUTH_TOKEN"}}

\* the demo account's number in its three spellings, another number
Phones ==
    {DEMO_PHONE, <<"5", "5", "5", "0", "1", "0", "0", "0", "0", "1">>, <<"+", "1", " ", "5", "5", "5", "0", "1", "0", "0", "0", "0", "1">>, <<"+", "1", "5", "5", "5", "0", "1", "0", "0", "0", "0", "2">>}

\* the demo code and another code
Codes == {DEMO_CODE, <<"0", "0", "0", "0", "0", "0">>}

\* one call of verify_otp_code at hour 0
InitAuth ==
    /\ api_keys \in TwilioKeys
    /\ IdleDispatch
    /\ IdleTeam
    /\ IdleExtract
    /\ IdleQuery
    /\ IdleTruth
    /\ phone_number \in Phones
    /\ code \in Codes
    /\ twilio_client \in TwilioClients
    /\ check_calls = 0
    /\ check_status = "none"
    /\ otp_result = Failure
    /\ utcnow = 0
    /\ jwt_token = <<>>
    /\ jwt_payload = NoPayload
    /\ apc = "verify"

NextAuth ==
    \/ VerifyOtp
    \/ VerifyJwt

SpecAuth == InitAuth /\ [][NextAuth]_vars

----------------------------------------------------------------------------
(* Properties.                                                             *)

\* the request of provider p did not give a usable answer
Failed(o) ==
    \/ o.kind = "raise"
    \/ o.kind = "http" /\ (o.status # HTTP_OK \/ o.payload # "content")

Answered(o) == o.kind = "http" /\ o.status = HTTP_OK /\ o.payload = "content"

\* the providers that have a result in the list rs
ModelsIn(rs) == {rs[i].model : i \in 1..Len(rs)}

\* C1: when query_all_models returns, results holds exactly one result per
\* dispatched provider: as many results as providers, every provider among
\* them, none twice, whichever providers lack their key or fail.
C1_OneResultPerProvider ==
    qpc = "returned" =>
        /\ Len(results) = Cardinality(Providers)
        /\ ModelsIn(results) = Providers
        /\ \A i, j \in 1..Len(results) :
               results[i].model = results[j].model => i = j

\* a dispatch has returned in which one provider lacked its key, one raised
\* and one answered with a non-success status
C1_Witness ==
    /\ qpc = "returned"
    /\ \E p \in Providers : p \notin api_keys
    /\ \E p \in Providers : net_outcome[p].kind = "raise"
    /\ \E p \in Providers : net_outcome[p].kind = "http" /\ net_outcome[p].status # HTTP_OK

\* C2: every finished adapter call has returned a result record, never
\* raised; when its request failed (exception, non-success status, malformed
\* payload) the record is an error result (bracketed, containing "error")
\* that carries the exception text or the status code.
C2_AdapterAlwaysReturnsResult ==
    \A p \in Providers :
        task[p] = "done" =>
            /\ future[p].state = "return"
            /\ future[p].value.model = p
            /\ Failed(net_outcome[p]) =>
                   /\ ~successful(future[p].value)
                   /\ net_outcome[p].kind = "raise" =>
                          contains(future[p].value.response, net_outcome[p].text)
                   /\ net_outcome[p].kind = "http" /\ net_outcome[p].status # HTTP_OK =>
                          contains(future[p].value.response,
                                   IntToStr(net_outcome[p].status))

\* three adapters have finished: one after an exception of its client, one
\* after a non-success status, one after a malformed payload
C2_Witness ==
    /\ \E p \in Providers : task[p] = "done" /\ net_outcome[p].kind = "raise"
    /\ \E p \in Providers :
           /\ task[p] = "done"
           /\ net_outcome[p].kind = "http"
           /\ net_outcome[p].status # HTTP_OK
    /\ \E p \in Providers :
           /\ task[p] = "done"
           /\ net_outcome[p].kind = "http"
           /\ net_outcome[p].status = HTTP_OK
           /\ net_outcome[p].payload # "content"

\* C3: query_all_models returns only when every adapter task is done, and
\* the result of every task that returned one is in the list, also when
\* other providers failed or finished later.
C3_ReturnsAfterAllTasks ==
    qpc = "returned" =>
        \A p \in Providers :
            /\ task[p] = "done"
            /\ p \in yielded
            /\ future[p].state = "return" =>
                   \E i \in 1..Len(results) : results[i] = future[p].value

\* a dispatch has returned whose first collected result is a failure and
\* whose last collected result is an answer
C3_Witness ==
    /\ qpc = "returned"
    /\ Len(results) >= 2
    /\ Failed(net_outcome[results[1].model])
    /\ Answered(net_outcome[results[Len(results)].model])

\* C4: every dispatch eventually returns, even if a provider never responds.
C4_DispatchEventuallyReturns == <>(qpc = "returned")

MissingKeyText == <<"m", "i", "s", "s", "i", "n", "g", " ", "A", "P", "I", " ", "k", "e", "y">>

\* C5: an adapter without its credential makes no request and returns a
\* bracketed diagnostic that names the adapter and the missing API key; an
\* adapter with its credential has made exactly one request once started.
C5_NoRequestWithoutCredential ==
    \A p \in Providers :
        /\ p \notin api_keys =>
               /\ net_requests[p] = 0
               /\ task[p] # "waiting"
               /\ task[p] = "done" =>
                      /\ future[p].state = "return"
                      /\ startswith(future[p].value.response, <<"[">>)
                      /\ contains(future[p].value.response, ModelName(p))
                      /\ contains(future[p].value.response, MissingKeyText)
        /\ p \in api_keys =>
               net_requests[p] = IF task[p] \in {"waiting", "done"} THEN 1 ELSE 0

\* a dispatch has returned in which one adapter lacked its credential and
\* another had it
C5_Witness ==
    /\ qpc = "returned"
    /\ \E p \in Providers : p \notin api_keys /\ net_requests[p] = 0
    /\ \E p \in Providers : p \in api_keys /\ net_requests[p] = 1

\* C6: when exceptions leave adapter tasks, query_all_models does not fail;
\* it returns the results of exactly the tasks that returned one, in one
\* copy each, and logs the others.
C6_EscapedExceptionOmitsOnlyThatResult ==
    /\ qpc # "raised"
    /\ qpc = "returned" =>
           /\ \A p \in Providers :
                  /\ future[p].state = "return" =>
                         \E i \in 1..Len(results) : results[i] = future[p].value
                  /\ future[p].state = "raise" =>
                         p \in logged /\ p \notin ModelsIn(results)
           /\ Len(results) = Cardinality({p \in Providers : future[p].state = "return"})

\* a dispatch has returned in which one task raised and another returned
C6_Witness ==
    /\ qpc = "returned"
    /\ \E p \in Providers : future[p].state = "raise"
    /\ \E p \in Providers : future[p].state = "return"

\* C7: when the Adversarial (red) or the Defensive (blue) review is disabled,
\* perform_purple_team_analysis is never called and purple_team is None,
\* whatever enable_purple_team is.
C7_NoSynthesisWhenReviewDisabled ==
    (~request.enable_red_team \/ ~request.enable_blue_team) =>
        /\ ~purple_args.called
        /\ purple_analysis = None
        /\ team_analysis.purple_team = None

\* run_team_analysis has returned with the synthesis and the red review
\* enabled, the blue review disabled, and a red finding present
C7_Witness ==
    /\ team_analysis.present
    /\ request.enable_purple_team
    /\ request.enable_red_team
    /\ ~request.enable_blue_team
    /\ Truthy(team_analysis.red_team)

\* the review t has ended without an analysis: no OpenAI client, or its API
\* call failed
NotProduced(t) ==
    /\ review_task[t] = "done"
    /\ ~openai_client \/ Failed(review_outcome[t])

\* C8: with all three reviews enabled, the synthesis is not called when the
\* red or the blue analysis was not successfully produced.
C8_NoSynthesisAfterFailedReview ==
    ( /\ request.enable_red_team
      /\ request.enable_blue_team
      /\ request.enable_purple_team
      /\ NotProduced("red") \/ NotProduced("blue") )
    => ~purple_args.called

\* C9: when perform_purple_team_analysis is called, the red and the blue task
\* are both done and its arguments are the strings those two tasks returned.
C9_SynthesisAfterBothReviews ==
    purple_args.called =>
        /\ review_task["red"] = "done"
        /\ review_task["blue"] = "done"
        /\ purple_args.red_analysis = review_future["red"]
        /\ purple_args.blue_analysis = review_future["blue"]

\* the synthesis has been called on two findings that differ
C9_Witness ==
    /\ purple_args.called
    /\ purple_args.red_analysis # purple_args.blue_analysis
    /\ epc = "purple_call"

ScoreType(t) ==
    CASE t = "red" -> RiskScore
      [] t = "blue" -> TrustScore
      [] t = "purple" -> ConfidenceScore

\* the string the review t came back with
Finding(t) == IF t = "purple" THEN purple_analysis ELSE review_future[t]

\* C10: when the API call of a review fails, the review returns a string and
\* the rating extract_score_from_analysis reads from it is the default 5.0.
C10_FailedReviewScoresDefault ==
    \A t \in Reviews :
        (openai_client /\ Failed(review_outcome[t])) =>
            /\ ~Finding(t).isNone
            /\ FEq(extract_score_from_analysis(Finding(t), ScoreType(t)), DefaultScore)

C12_FinalInOneToTen ==
    epc = "responded" =>
        FLe(Frac(1, 1), h_score.final) /\ FLe(h_score.final, Frac(10, 1))

\* C12, amended: the final composite score lies in [0.75, 10.0]; safety,
\* trust and confidence are at least 1.0 each but quality can be 0.0.
C12_FinalInRange ==
    epc = "responded" =>
        FLe(Frac(75, 100), h_score.final) /\ FLe(h_score.final, Frac(10, 1))

\* every result is an error text, the risk is 10 and trust and confidence
\* are 1: the final score is 0.75
C12_Witness ==
    /\ epc = "responded"
    /\ \A i \in 1..Len(responses) : ~successful(responses[i])
    /\ team_analysis.present
    /\ team_analysis.red_team = Str(<<"R", "i", "s", "k", " ", "S", "c", "o", "r", "e", ":", " ", "1", "0", "/", "1", "0">>)
    /\ FEq(h_score.final, Frac(75, 100))

\* the provider's result is an error result: its key is missing, or its
\* request failed or came back malformed
ErrorResult(p) == p \notin api_keys \/ Failed(net_outcome[p])

\* C13: when query_all_models has returned, the quality the scorer gives
\* its result list is 10 x (results that are not error results) / (results):
\* 0.0 when every result is an error result, missing credentials included,
\* and 10.0 when none is.
C13_QualityIsShareOfNonErrorResults ==
    qpc = "returned" =>
        FEq(response_quality(results),
            Frac(10 * Cardinality({p \in Providers : ~ErrorResult(p)}),
                 Cardinality(Providers)))

\* 10 x (results not starting with "[" or not containing "error") / (results),
\* and 5.0 for no results
QualityOf(rs) ==
    IF Len(rs) = 0 THEN Frac(5, 1)
    ELSE Frac(10 * Cardinality({i \in 1..Len(rs) :
                                   ~(/\ Len(rs[i].response) > 0
                                     /\ rs[i].response[1] = "["
                                     /\ contains(lower(rs[i].response), <<"e", "r", "r", "o", "r">>))}),
              Len(rs))

\* C14: the scorer returns safety = 11 - extract(red, "Risk Score") and
\* final = 0.25 x (safety + trust + confidence + quality), rounded to one
\* and two decimals; a red finding "Risk Score: 7/10" gives safety 4.0.
C14_SafetyAndFinalFormula ==
    epc = "responded" =>
        LET red == score_argument(team_analysis, "red_team")
            blue == score_argument(team_analysis, "blue_team")
            purple == score_argument(team_analysis, "purple_team")
            risk == extract_score_from_analysis(red, RiskScore)
            trust == extract_score_from_analysis(blue, TrustScore)
            confidence == extract_score_from_analysis(purple, ConfidenceScore)
            sum == FAdd(FAdd(FSub(Frac(11, 1), risk), trust),
                        FAdd(confidence, QualityOf(responses)))
        IN  /\ FEq(h_score.safety, round(FSub(Frac(11, 1), risk), 1))
            /\ FEq(h_score.final, round(FMul(Frac(1, 4), sum), 2))
            /\ red = Str(<<"R", "i", "s", "k", " ", "S", "c", "o", "r", "e", ":", " ", "7", "/", "1", "0">>) => FEq(h_score.safety, Frac(4, 1))

\* the scorer has run on a red finding "Risk Score: 7/10" and a result
\* list in which some results are errors and some are not
C14_Witness ==
    /\ epc = "responded"
    /\ team_analysis.present
    /\ team_analysis.red_team = Str(<<"R", "i", "s", "k", " ", "S", "c", "o", "r", "e", ":", " ", "7", "/", "1", "0">>)
    /\ FEq(h_score.safety, Frac(4, 1))
    /\ \E i, j \in 1..Len(responses) :
           successful(responses[i]) /\ ~successful(responses[j])

\* the toggle of review t in the request
Enabled(t) ==
    CASE t = "red" -> request.enable_red_team
      [] t = "blue" -> request.enable_blue_team
      [] t = "purple" -> request.enable_purple_team

\* what review t returns for the outcome its API call had
OutputOf(t) == perform_team_analysis(t, openai_client, review_outcome[t])

\* C15, as stated: once the reviews are over, a disabled review has null in
\* its field, and every enabled review has run and has its own output in its
\* field whichever other reviews are disabled: red and blue whenever enabled,
\* purple whenever enabled and no enabled review it reads came back empty.
C15_DisablingAffectsNoOtherStage ==
    epc \in {"score", "responded"} /\ team_analysis.present =>
        /\ team_analysis.red_team =
               IF Enabled("red") THEN OutputOf("red") ELSE None
        /\ team_analysis.blue_team =
               IF Enabled("blue") THEN OutputOf("blue") ELSE None
        /\ team_analysis.purple_team =
               IF /\ Enabled("purple")
                  /\ Enabled("red") => Truthy(team_analysis.red_team)
                  /\ Enabled("blue") => Truthy(team_analysis.blue_team)
               THEN OutputOf("purple") ELSE None

\* C15, amended: a disabled review has null in its field; red and blue run
\* whenever enabled and output the same whatever else is disabled; purple
\* runs only when it, red and blue are all enabled and red and blue both
\* returned text, so disabling red or blue also leaves purple null; with
\* every toggle off there is no team_analysis at all.
C15_DisabledReviewYieldsNull ==
    epc \in {"score", "responded"} =>
        /\ team_analysis.present =
               (Enabled("red") \/ Enabled("blue") \/ Enabled("purple"))
        /\ team_analysis.red_team =
               IF Enabled("red") THEN OutputOf("red") ELSE None
        /\ team_analysis.blue_team =
               IF Enabled("blue") THEN OutputOf("blue") ELSE None
        /\ team_analysis.purple_team =
               IF /\ Enabled("purple") /\ Enabled("red") /\ Enabled("blue")
                  /\ Truthy(team_analysis.red_team)
                  /\ Truthy(team_analysis.blue_team)
               THEN OutputOf("purple") ELSE None

\* red and purple are enabled, blue is disabled, red returned text, and the
\* request is answered with blue and purple null
C15_Witness ==
    /\ epc = "responded"
    /\ Enabled("red") /\ ~Enabled("blue") /\ Enabled("purple")
    /\ team_analysis.present
    /\ Truthy(team_analysis.red_team)
    /\ team_analysis.blue_team = None
    /\ team_analysis.purple_team = None

\* a review has been submitted, run or called
ReviewInvoked ==
    \/ \E t \in {"red", "blue"} : review_task[t] # "unsubmitted"
    \/ purple_args.called
    \/ team_analysis.present

\* C16: a request without an Authorization header, or with one that does
\* not start with "Bearer ", is rejected with 401 before anything else: no
\* web search, no dispatch to the providers and no review is ever invoked.
C16_UnauthorizedRejectedBeforeDispatch ==
    \/ authorization # None /\ startswith(authorization.s, <<"B", "e", "a", "r", "e", "r", " ">>)
    \/ /\ epc \in {"request", "rejected"}
       /\ web_search_calls = 0
       /\ dispatch_calls = 0
       /\ ~ReviewInvoked
       /\ h_score = NoScore

\* a request with a header that is not a Bearer token has been rejected
C16_Witness ==
    /\ authorization = Str(<<"B", "a", "s", "i", "c", " ", "t">>)
    /\ epc = "rejected"
    /\ status_code = HTTP_UNAUTHORIZED
    /\ dispatch_calls = 0

\* C17: when a request with enable_truth_verification has been answered,
\* verify_responses has been called on the dispatcher's result list.
C17_TruthVerificationRuns ==
    epc = "responded" /\ request.enable_truth_verification =>
        verify_calls > 0

\* C18: overall_truth_score of the report lies in [0, 1], before and after
\* verify_response_accuracy computes it, whatever the responses, the search
\* and the link checks did.
C18_OverallScoreInUnitInterval ==
    /\ FLe(Frac(0, 1), verification_results.overall_truth_score)
    /\ FLe(verification_results.overall_truth_score, Frac(1, 1))

\* the search returned more than five items, a recent year is mentioned and
\* every link is verified and reliable: the report's score is 0.94
C18_Witness ==
    /\ vpc = "done"
    /\ search_outcome.items > 5
    /\ verification_results.source_verification.urls_found > 0
    /\ FEq(verification_results.overall_truth_score, Frac(94, 100))

\* the years found in any of the responses
YearsInAll(rs) == UNION {years_mentioned(rs[i].response) : i \in 1..Len(rs)}

\* C19: once computed, the temporal score is the score of all the response
\* text taken together: 0.7 when no response mentions a year, 0.9 when a
\* year of any response is no more than 2 before the current year, otherwise
\* 0.7 when one is no more than 5 before it, otherwise 0.4.
C19_TemporalScoreOverAllText ==
    vpc \in {"sources", "done"} =>
        LET years == YearsInAll(ai_responses)
            within(n) == \E y \in years : y >= current_year - n
        IN  FEq(verification_results.temporal_accuracy,
                IF years = {} THEN Frac(7, 10)
                ELSE IF within(2) THEN Frac(9, 10)
                ELSE IF within(5) THEN Frac(7, 10)
                ELSE Frac(4, 10))

\* C20: once computed, the cross-reference score is 0.5 when the search is
\* not configured, raised or answered with a status other than 200,
\* min(items / 5, 1.0) when it answered 200 with items, and 0.3 when it
\* answered 200 without items.
C20_CrossReferenceDefaults ==
    vpc \in {"temporal", "sources", "done"} =>
        FEq(verification_results.cross_reference_score,
            IF \/ ~search_configured
               \/ search_outcome.kind = "raise"
               \/ search_outcome.status # HTTP_OK
            THEN Frac(5, 10)
            ELSE IF search_outcome.items = 0 THEN Frac(3, 10)
            ELSE IF search_outcome.items >= 5 THEN Frac(1, 1)
            ELSE Frac(search_outcome.items, 5))

\* C21: when the search request of the cross-reference stage raised, the
\* returned report records the exception in warnings, carries the default
\* 0.5 for that stage, and carries the temporal score and the overall score
\* computed as usual.
C21_StageExceptionRecorded ==
    vpc = "done" /\ search_outcome.kind = "raise" =>
        /\ Len(verification_results.warnings) > 0
        /\ FEq(verification_results.cross_reference_score, Frac(5, 10))
        /\ FEq(verification_results.temporal_accuracy,
               check_temporal_accuracy(ai_responses, current_year))
        /\ FEq(verification_results.overall_truth_score,
               calculate_truth_score(verification_results))

\* C22: in every returned report confidence_level is the bucket of the
\* report's overall_truth_score: high from 0.8, medium from 0.6, low from
\* 0.4, very_low below.
C22_ConfidenceIsBucketOfOverall ==
    vpc = "done" =>
        LET overall == verification_results.overall_truth_score
            level == verification_results.confidence_level
        IN  /\ level = "high" <=> FLe(Frac(8, 10), overall)
            /\ level = "medium" <=>
                   FLe(Frac(6, 10), overall) /\ ~FLe(Frac(8, 10), overall)
            /\ level = "low" <=>
                   FLe(Frac(4, 10), overall) /\ ~FLe(Frac(6, 10), overall)
            /\ level = "very_low" <=> ~FLe(Frac(4, 10), overall)

\* a returned report whose overall score is exactly the 0.8 threshold
C22_Witness ==
    /\ vpc = "done"
    /\ FEq(verification_results.overall_truth_score, Frac(8, 10))
    /\ verification_results.confidence_level = "high"

\* the overall score that a source score s gives with the report's other
\* two sub-scores
OverallWith(vr, s) ==
    round(FAdd(FAdd(FMul(Frac(4, 10), vr.cross_reference_score),
                    FMul(Frac(3, 10), vr.temporal_accuracy)),
               FAdd(FMul(Frac(2, 10), s), Frac(7, 100))), 2)

\* C23: the source score that enters the overall score is
\* 0.6 x verified/found + 0.4 x reliable/found when at least one URL was
\* found; when the responses contain no URL, urls_found is 0 and the source
\* score is 0.7.
C23_SourceScore ==
    vpc = "done" =>
        LET sv == verification_results.source_verification
        IN  /\ sv.urls_found = Len(AllUrls)
            /\ sv.urls_found > 0 =>
                   FEq(verification_results.overall_truth_score,
                       OverallWith(verification_results,
                           FAdd(FMul(Frac(6, 10),
                                     Frac(sv.urls_verified, sv.urls_found)),
                                FMul(Frac(4, 10),
                                     Frac(sv.reliable_sources, sv.urls_found)))))
            /\ sv.urls_found = 0 =>
                   FEq(verification_results.overall_truth_score,
                       OverallWith(verification_results, Frac(7, 10)))

\* a returned report with URLs of which some were verified and fewer were
\* on the reliable list
C23_Witness ==
    /\ vpc = "done"
    /\ verification_results.source_verification.reliable_sources > 0
    /\ verification_results.source_verification.urls_verified
           > verification_results.source_verification.reliable_sources
    /\ verification_results.source_verification.urls_found
           > verification_results.source_verification.urls_verified

\* the same provider results in the opposite order of completion
Reversed(rs) == [i \in 1..Len(rs) |-> rs[Len(rs) + 1 - i]]

\* C27: the temporal score does not depend on the order of the provider
\* results: the score of the report is also the score
\* _check_temporal_accuracy gives for the same results in the opposite order.
C27_TemporalScoreOrderIndependent ==
    vpc \in {"sources", "done"} =>
        FEq(verification_results.temporal_accuracy,
            check_temporal_accuracy(Reversed(ai_responses), current_year))

\* the result the claim gives for a text in which pattern pat has a match:
\* the number of the leftmost match, clamped to [1.0, 10.0]
FirstMatchClamped(s, pat) ==
    FMin(Frac(10, 1), FMax(Frac(1, 1), float(FirstGroup(s, pat))))

\* C24: extract tries "<label>: N/10", "<label>: N", "Score: N/10" and
\* "Score: N" in this order, case-insensitively, and returns the first match
\* of the first of them that matches, clamped to [1.0, 10.0]; so a labelled
\* score wins over a generic score that stands earlier in the text.
C24_PatternOrder ==
    ex_pc # "call" /\ Truthy(ex_text) =>
        LET s == ex_text.s
            labelled10 == [label |-> ex_type \o <<":">>, ten |-> TRUE]
            labelled == [label |-> ex_type \o <<":">>, ten |-> FALSE]
            generic10 == [label |-> <<"S", "c", "o", "r", "e", ":">>, ten |-> TRUE]
            generic == [label |-> <<"S", "c", "o", "r", "e", ":">>, ten |-> FALSE]
        IN  IF HasMatch(s, labelled10)
            THEN FEq(ex_score, FirstMatchClamped(s, labelled10))
            ELSE IF HasMatch(s, labelled)
            THEN FEq(ex_score, FirstMatchClamped(s, labelled))
            ELSE IF HasMatch(s, generic10)
            THEN FEq(ex_score, FirstMatchClamped(s, generic10))
            ELSE HasMatch(s, generic) =>
                     FEq(ex_score, FirstMatchClamped(s, generic))

\* the extractor has run on a text whose generic score 3/10 stands before
\* the labelled score 7, and has returned the labelled one
C24_Witness ==
    /\ ex_pc = "called"
    /\ ex_text = Str(<<"S", "c", "o", "r", "e", ":", " ", "3", "/", "1", "0", ".", " ", "R", "i", "s", "k", " ", "S", "c", "o", "r", "e", ":", " ", "7">>)
    /\ ex_type = RiskScore
    /\ FEq(ex_score, Frac(7, 1))

\* no numeric pattern of the extractor matches s
NoNumericMatch(s, st) ==
    /\ ~HasMatch(s, [label |-> st \o <<":">>, ten |-> FALSE])
    /\ ~HasMatch(s, [label |-> <<"S", "c", "o", "r", "e", ":">>, ten |-> FALSE])

\* C25: when no numeric pattern matches, extract returns the value of the
\* first keyword of the keyword table that occurs in the lowercased text,
\* and 5.0 when none occurs or the text is empty.
C25_KeywordFallback ==
    ex_pc # "call" =>
        IF ~Truthy(ex_text) THEN FEq(ex_score, Frac(5, 1))
        ELSE NoNumericMatch(ex_text.s, ex_type) =>
                 LET occurs(i) ==
                         contains(lower(ex_text.s), score_keywords[i].keyword)
                     hits == {i \in 1..Len(score_keywords) : occurs(i)}
                 IN  IF hits = {} THEN FEq(ex_score, Frac(5, 1))
                     ELSE \E i \in hits :
                              /\ \A k \in hits : i <= k
                              /\ FEq(ex_score, score_keywords[i].score)

\* the extractor has run on a text without a score in which "good" and
\* "poor" occur, and has returned the value of "good"
C25_Witness ==
    /\ ex_pc = "called"
    /\ ex_text = Str(<<"G", "o", "o", "d", ",", " ", "n", "o", "t", " ", "p", "o", "o", "r">>)
    /\ FEq(ex_score, Frac(7, 1))

\* C28: for a text without a numeric score match that contains the phrase
\* "very high", extract returns 9.0.
C28_VeryHighGivesNine ==
    /\ ex_pc # "call"
    /\ Truthy(ex_text)
    /\ NoNumericMatch(ex_text.s, ex_type)
    /\ contains(lower(ex_text.s), <<"v", "e", "r", "y", " ", "h", "i", "g", "h">>)
    => FEq(ex_score, Frac(9, 1))

\* the text starts with "["
Bracketed(text) == Len(text) > 0 /\ text[1] = "["

\* the text contains "error" in any capitalisation
MentionsError(text) ==
    \E i \in 1..Len(text) : StartsAtIgnoreCase(text, i, <<"e", "r", "r", "o", "r">>)

\* C26: the scorer leaves a result out of the successful count only if its
\* text both starts with "[" and contains "error" in any case; a bracketed
\* text without "error" and an unbracketed text with "error" count as
\* successful; with no results quality is 5.0.
C26_OnlyBracketedErrorsExcluded ==
    epc = "responded" =>
        LET counted == {i \in 1..Len(responses) :
                           \/ ~Bracketed(responses[i].response)
                           \/ ~MentionsError(responses[i].response)}
        IN  IF Len(responses) = 0 THEN FEq(h_score.quality, Frac(5, 1))
            ELSE FEq(h_score.quality,
                     round(Frac(10 * Cardinality(counted), Len(responses)), 1))

\* the scorer has run on three results, a bracketed one without "error", an
\* unbracketed one with "error" and a bracketed error, and has counted two
C26_Witness ==
    /\ epc = "responded"
    /\ Len(responses) = 3
    /\ \E i, j, k \in 1..3 :
           /\ Bracketed(responses[i].response)
           /\ ~MentionsError(responses[i].response)
           /\ ~Bracketed(responses[j].response)
           /\ MentionsError(responses[j].response)
           /\ Bracketed(responses[k].response)
           /\ MentionsError(responses[k].response)
    /\ FEq(h_score.quality, Frac(67, 10))

\* the token of an Authorization header "Bearer <token>"
BearerToken(a) == SubSeq(a.s, Len(<<"B", "e", "a", "r", "e", "r", " ">>) + 1, Len(a.s))

\* C29: query_endpoint calls the dispatcher only for a request whose
\* Authorization header carries a token that verify_jwt_token accepts at the
\* time of the request.
C29_DispatchOnlyWithValidToken ==
    dispatch_calls > 0 =>
        /\ Truthy(authorization)
        /\ startswith(authorization.s, <<"B", "e", "a", "r", "e", "r", " ">>)
        /\ ~verify_jwt_token(BearerToken(authorization), utcnow).isNone

\* C30: with the Twilio client configured, verify_otp_code returns success
\* exactly when the verification service reported the submitted code as
\* approved, and a failure carries no tokens.
C30_TokensOnlyAfterApproval ==
    /\ apc \in {"returned", "checked"}
    /\ twilio_client
    => /\ otp_result.success <=> check_status = "approved"
       /\ ~otp_result.success => otp_result.tokens = NoTokens

====
